---------------------------- MODULE Spec2Model ----------------------------
(***************************************************************************)
(* A model of the flashing orchestration of fastboot (fastboot.cpp): slot  *)
(* resolution, the fastboot-info interpreter, the catalog task list, and   *)
(* the way FastBootTool::Main and FlashAllTool::Flash run their tasks.     *)
(*                                                                         *)
(* Strings are TLA+ strings.  Where the code looks at single characters    *)
(* (slot letters, the '_' prefix of current-slot, the '#' of a comment)    *)
(* the string is taken apart with StrChars.                                *)
(***************************************************************************)
EXTENDS Integers, Sequences, FiniteSets, TLC

VARIABLES
    fp,          \* the FlashingPlan of the invocation
    source,      \* the ImageSource: files it can read, script, metadata
    dev,         \* the device: the variables it reports
    pc,          \* where the invocation is
    tasks_,      \* FlashAllTool::tasks_
    tasks,       \* the task list of FastBootTool::Main
    run,         \* the task loop that is executing: list, index, command
    cmds,        \* every device command issued so far, with its status
    dead,        \* the process has terminated through die()/exit()
    note,        \* what graph construction reported (errors that were logged)
    probe,       \* inputs and results of a function applied on its own
    next_active, \* the slot Main activates at the end (--set-active)
    target_sparse_limit,  \* the cached max-download-size, -1 when not asked yet
    link         \* the connection: its number, and what was asked over it

vars == <<fp, source, dev, pc, tasks_, tasks, run, cmds, dead, note, probe, next_active,
         target_sparse_limit, link>>

-----------------------------------------------------------------------------
(* Bounds of the model                                                     *)

MaxSlots == 4        \* largest slot count a device reports
MaxApply == 3        \* how often get_other_slot is applied in a row
MaxLines == 3        \* longest fastboot-info script
MaxPresent == 2      \* how many optional catalog images a source holds at most
MaxRuns == 2         \* longest sparse image, in runs
MaxCalls == 3        \* calls of get_sparse_limit on one connection
MaxReboots == 1      \* reboots to userspace fastboot
MaxRewrites == 2     \* how often rewrite_vbmeta_buffer is applied in a row
MaxRequirements == 2 \* most lines of android-info.txt
MaxFetches == 3      \* fetches a device serves before it fails one
MaxCollected == 3    \* longest task list handed to the filter of CollectTasks
MaxArgs == 3         \* longest command line, in words

-----------------------------------------------------------------------------
(* Characters and strings                                                  *)

Alphabet == <<"a","b","c","d","e","f","g","h","i","j","k","l","m",
              "n","o","p","q","r","s","t","u","v","w","x","y","z">>

\* The characters of the strings whose characters the code inspects.
MultiChar ==
    [s \in {"all", "other", "_a", "_b", "_c", "_d", "_e", "_f", "ab", "#c",
            "if-wipe", "version", "flash", "erase", "reboot", "update-super",
            "bogus", "boot", "system", "vendor", "userdata", "fastboot",
            "--apply-vbmeta", "--slot-other", "4294967296", "boot.img"} |->
       CASE s = "all"   -> <<"a","l","l">>
         [] s = "other" -> <<"o","t","h","e","r">>
         [] s = "_a"    -> <<"_","a">>
         [] s = "_b"    -> <<"_","b">>
         [] s = "_c"    -> <<"_","c">>
         [] s = "_d"    -> <<"_","d">>
         [] s = "_e"    -> <<"_","e">>
         [] s = "_f"    -> <<"_","f">>
         [] s = "ab"    -> <<"a","b">>
         [] s = "#c"    -> <<"#","c">>
         [] s = "if-wipe" -> <<"i","f","-","w","i","p","e">>
         [] s = "version" -> <<"v","e","r","s","i","o","n">>
         [] s = "flash"   -> <<"f","l","a","s","h">>
         [] s = "erase"   -> <<"e","r","a","s","e">>
         [] s = "reboot"  -> <<"r","e","b","o","o","t">>
         [] s = "update-super" -> <<"u","p","d","a","t","e","-","s","u","p","e","r">>
         [] s = "bogus"   -> <<"b","o","g","u","s">>
         [] s = "boot"    -> <<"b","o","o","t">>
         [] s = "system"  -> <<"s","y","s","t","e","m">>
         [] s = "vendor"  -> <<"v","e","n","d","o","r">>
         [] s = "userdata" -> <<"u","s","e","r","d","a","t","a">>
         [] s = "fastboot" -> <<"f","a","s","t","b","o","o","t">>
         [] s = "--apply-vbmeta" -> <<"-","-","a","p","p","l","y","-","v","b","m","e","t","a">>
         [] s = "--slot-other" -> <<"-","-","s","l","o","t","-","o","t","h","e","r">>
         [] s = "4294967296" -> <<"4","2","9","4","9","6","7","2","9","6">>
         [] s = "boot.img" -> <<"b","o","o","t",".","i","m","g">>]

StrChars(s) ==
    IF s = "" THEN <<>>
    ELSE IF Len(s) = 1 THEN <<s>>
    ELSE MultiChar[s]

RECURSIVE JoinChars(_)
JoinChars(cs) == IF cs = <<>> THEN "" ELSE Head(cs) \o JoinChars(Tail(cs))

\* The code of a character (ASCII), for the characters the model meets.
Ord(c) ==
    IF \E i \in 1..26 : Alphabet[i] = c
    THEN 96 + (CHOOSE i \in 1..26 : Alphabet[i] = c)
    ELSE CASE c = "_" -> 95
           [] c = "#" -> 35
           [] c = "-" -> 45
           [] c = "." -> 46
           [] c \in {"0","1","2","3","4","5","6","7","8","9"} ->
                48 + (CHOOSE d \in 0..9 : <<"0","1","2","3","4","5","6","7","8","9">>[d + 1] = c)

\* The character with a given code.
Chr(n) ==
    IF n \in 97..122 THEN Alphabet[n - 96]
    ELSE CASE n = 95 -> "_"
           [] OTHER  -> "\\" \o ToString(n)

\* s[0] of a std::string: the first character, or NUL for the empty string.
FirstCharCode(s) == IF s = "" THEN 0 ELSE Ord(Head(StrChars(s)))

\* s.erase(0, 1)
EraseFirst(s) == JoinChars(Tail(StrChars(s)))

\* a % b of C++ for b # 0: truncated towards zero, sign of the dividend.
CRem(a, b) ==
    LET m == IF b < 0 THEN -b ELSE b
    IN  IF a >= 0 THEN a % m ELSE -((-a) % m)

Digits == <<"0","1","2","3","4","5","6","7","8","9">>

\* The value of a string of decimal digits that fits TLC's integers, -1 for
\* any other string.
DecimalValue(s) ==
    IF \E d \in 0..9 : Digits[d + 1] = s
    THEN CHOOSE d \in 0..9 : Digits[d + 1] = s
    ELSE -1

\* The strings of decimal digits whose value is above 2^32 - 1.
ExceedsUint32(s) == s = "4294967296"

\* android::base::ParseUint(s, &uint32): ok and the value, or not ok (a
\* string that is no number, a number that does not fit 32 bits).
ParseUint(s) ==
    LET v == DecimalValue(s)
    IN  IF v >= 0 /\ ~ExceedsUint32(s) THEN [ok |-> TRUE, v |-> v]
        ELSE [ok |-> FALSE, v |-> 0]

\* android::base::ParseInt(s, &int): as ParseUint, with "-1" as the one
\* negative number a device is taken to report.
ParseInt(s) ==
    IF s = "-1" THEN [ok |-> TRUE, v |-> -1]
    ELSE LET v == DecimalValue(s)
         IN  IF v >= 0 /\ ~ExceedsUint32(s) THEN [ok |-> TRUE, v |-> v]
             ELSE [ok |-> FALSE, v |-> 0]

-----------------------------------------------------------------------------
(* The device protocol: GetVar                                             *)

\* The reply to a GetVar: the status and the value.
Reply(v) == [ok |-> TRUE, val |-> v]
NoReply == [ok |-> FALSE, val |-> ""]

-----------------------------------------------------------------------------
(* Slot resolution                                                         *)

get_current_slot ==
    IF ~dev.current_slot.ok THEN ""
    ELSE IF FirstCharCode(dev.current_slot.val) = Ord("_")
         THEN EraseFirst(dev.current_slot.val)
         ELSE dev.current_slot.val

get_slot_count ==
    IF ~dev.slot_count.ok \/ ~ParseInt(dev.slot_count.val).ok THEN 0
    ELSE ParseInt(dev.slot_count.val).v

supports_AB == get_slot_count >= 2

\* A mutant of get_other_slot: the slot itself is returned for the last slot
\* (the wrap-around is lost).
get_other_slot_nowrap(current_slot, count) ==
    IF count = 0 THEN ""
    ELSE LET n == FirstCharCode(current_slot) - Ord("a") + 1
         IN  Chr((IF n >= count THEN n - 1 ELSE n) + Ord("a"))

\* Given a current slot, this returns what the 'other' slot is.
get_other_slot(current_slot, count) ==
    IF count = 0 THEN ""
    ELSE Chr(CRem(FirstCharCode(current_slot) - Ord("a") + 1, count) + Ord("a"))

\* What a function that may terminate the process gives back.
Returns(v) == [term |-> "return", ret |-> v]
Dies == [term |-> "die", ret |-> ""]
Exits == [term |-> "exit", ret |-> ""]

\* A mutant of verify_slot: "all" is handed back whatever allow_all says.
verify_slot_keeps_all(slot_name, allow_all) ==
    IF slot_name = "all" THEN Returns("all")
    ELSE IF get_slot_count = 0 THEN Dies
    ELSE IF slot_name = "other"
         THEN IF get_other_slot(get_current_slot, get_slot_count) = ""
              THEN Dies
              ELSE Returns(get_other_slot(get_current_slot, get_slot_count))
    ELSE IF Len(slot_name) = 1
            /\ FirstCharCode(slot_name) - Ord("a") >= 0
            /\ FirstCharCode(slot_name) - Ord("a") < get_slot_count
         THEN Returns(slot_name)
    ELSE Exits

\* A mutant of verify_slot: the letter just past the last slot is let through.
verify_slot_one_too_many(slot_name, allow_all) ==
    IF slot_name = "all"
    THEN IF allow_all THEN Returns("all")
         ELSE IF get_slot_count > 0 THEN Returns("a") ELSE Dies
    ELSE IF get_slot_count = 0 THEN Dies
    ELSE IF slot_name = "other"
         THEN IF get_other_slot(get_current_slot, get_slot_count) = ""
              THEN Dies
              ELSE Returns(get_other_slot(get_current_slot, get_slot_count))
    ELSE IF Len(slot_name) = 1
            /\ FirstCharCode(slot_name) - Ord("a") >= 0
            /\ FirstCharCode(slot_name) - Ord("a") <= get_slot_count
         THEN Returns(slot_name)
    ELSE Exits

verify_slot(slot_name, allow_all) ==
    IF slot_name = "all"
    THEN IF allow_all THEN Returns("all")
         ELSE IF get_slot_count > 0 THEN Returns("a") ELSE Dies
    ELSE IF get_slot_count = 0 THEN Dies
    ELSE IF slot_name = "other"
         THEN IF get_other_slot(get_current_slot, get_slot_count) = ""
              THEN Dies
              ELSE Returns(get_other_slot(get_current_slot, get_slot_count))
    ELSE IF Len(slot_name) = 1
            /\ FirstCharCode(slot_name) - Ord("a") >= 0
            /\ FirstCharCode(slot_name) - Ord("a") < get_slot_count
         THEN Returns(slot_name)
    ELSE Exits

------------------------------------------------------------------------------
(* 64-bit quantities.  A byte count is kept as three limbs,                *)
(* value = a * 2^48 + b * 2^24 + c with 0 <= b, c < 2^24; a is in          *)
(* 0 .. 2^16 - 1 for a uint64_t and in -2^15 .. 2^15 - 1 for an int64_t.   *)

Limb == 16777216

Wide(a, b, c) == [a |-> a, b |-> b, c |-> c]

\* the 64-bit value of a small integer n, -2^31 < n < 2^31
WideOf(n) ==
    IF n >= 0 THEN Wide(0, n \div Limb, n % Limb)
    ELSE Wide(-1, (Limb - 1) - (((-n) - 1) \div Limb),
                  (Limb - 1) - (((-n) - 1) % Limb))

WLess(x, y) ==
    \/ x.a < y.a
    \/ x.a = y.a /\ x.b < y.b
    \/ x.a = y.a /\ x.b = y.b /\ x.c < y.c

WLeq(x, y) == x = y \/ WLess(x, y)

WMin(x, y) == IF WLess(y, x) THEN y ELSE x

\* static_cast<int64_t>(uint64_t): values from 2^63 up wrap to negatives
ToInt64(u) == IF u.a >= 32768 THEN [u EXCEPT !.a = @ - 65536] ELSE u

UINT32_MAX == Wide(0, 255, Limb - 1)

RESPARSE_LIMIT == Wide(0, 64, 0)

\* text of the byte counts used below: decimal, or hexadecimal after 0x
UintText ==
    [t \in {"0", "1", "2", "3", "4096", "0x1000", "1073741824",
            "1073741825", "4294967295", "4294967296",
            "9223372036854775807", "9223372036854775808",
            "18446744073709551615", "0x0", "0x100", "0x140", "0x154",
            "0x180", "0x200", "0x8000000000000000"} |->
        CASE t = "0"                    -> WideOf(0)
          [] t = "1"                    -> WideOf(1)
          [] t = "2"                    -> WideOf(2)
          [] t = "3"                    -> WideOf(3)
          [] t = "4096"                 -> WideOf(4096)
          [] t = "0x1000"               -> WideOf(4096)
          [] t = "1073741824"           -> Wide(0, 64, 0)
          [] t = "1073741825"           -> Wide(0, 64, 1)
          [] t = "4294967295"           -> Wide(0, 255, Limb - 1)
          [] t = "4294967296"           -> Wide(0, 256, 0)
          [] t = "9223372036854775807"  -> Wide(32767, Limb - 1, Limb - 1)
          [] t = "9223372036854775808"  -> Wide(32768, 0, 0)
          [] t = "18446744073709551615" -> Wide(65535, Limb - 1, Limb - 1)
          [] t = "0x0"                  -> WideOf(0)
          [] t = "0x100"                -> WideOf(256)
          [] t = "0x140"                -> WideOf(320)
          [] t = "0x154"                -> WideOf(340)
          [] t = "0x180"                -> WideOf(384)
          [] t = "0x200"                -> WideOf(512)
          [] t = "0x8000000000000000"   -> Wide(32768, 0, 0)]

\* android::base::Trim on the replies used below
Trim(s) == IF s = " 4096 " THEN "4096" ELSE s

\* android::base::ParseUint<uint64_t>: anything that is not the text of a
\* value below 2^64 (the empty string, a word, 2^64 itself) is refused
ParseUint64(s) ==
    IF s \in DOMAIN UintText THEN [ok |-> TRUE, val |-> UintText[s]]
    ELSE [ok |-> FALSE, val |-> WideOf(0)]

\* get_uint_var: 0 when the variable is unanswered, empty or unparsable
get_uint_var(reply) ==
    IF ~reply.ok \/ reply.val = "" THEN WideOf(0)
    ELSE LET parsed == ParseUint64(Trim(reply.val))
         IN  IF parsed.ok THEN parsed.val ELSE WideOf(0)

-----------------------------------------------------------------------------
(* Values of the variables a specification does not use                    *)

DefaultDevice ==
    [slot_count       |-> NoReply,     \* reply to slot-count
     current_slot     |-> NoReply,     \* reply to current-slot
     has_slot_ok      |-> TRUE,        \* has-slot:<p> is answered at all
     has_slot         |-> {},          \* partitions with has-slot:<p> = yes
     logical          |-> {},          \* partitions with is-logical:<p> = yes
     formattable      |-> {},          \* partitions a filesystem can be made for
     snapshot_status  |-> NoReply,     \* reply to snapshot-update-status
     max_download     |-> NoReply,     \* reply to max-download-size
     is_userspace     |-> NoReply,     \* reply to is-userspace
     partition_size   |-> NoReply,     \* reply to partition-size:<p>
     vbmeta_partition |-> FALSE,       \* partition-type:vbmeta[_a|_b] answered
     product          |-> NoReply,     \* reply to product
     max_fetch_size   |-> NoReply]     \* reply to max-fetch-size

DefaultPlan ==
    [slot_override               |-> "",
     current_slot                |-> "",
     secondary_slot              |-> "",
     skip_secondary              |-> FALSE,
     wants_wipe                  |-> FALSE,
     wants_set_active            |-> FALSE,
     skip_reboot                 |-> FALSE,
     force_flash                 |-> FALSE,
     should_use_fastboot_info    |-> FALSE,
     should_optimize_flash_super |-> FALSE,
     exclude_dynamic_partitions  |-> FALSE,
     sparse_limit                |-> WideOf(0)]

NoSource ==
    [kind     |-> "local",  \* LocalImageSource (flashall) or zip (update)
     files    |-> {},       \* names ReadFile/OpenFile can deliver
     script   |-> <<>>,     \* the lines of fastboot-info.txt
     super_empty  |-> "absent", \* super_empty.img: absent, unparsable or valid
     dynamic      |-> {},   \* the partitions of super_empty.img's metadata
     can_optimize |-> FALSE,    \* a super image can be built for the device
     android_info |-> <<>>]     \* the lines of android-info.txt

NoRun == [list |-> "none", task |-> 0, cmd |-> 0, begun |-> FALSE, ran |-> <<>>]
NoProbe == [kind |-> "none"]
NoLink == [conn |-> 1, asked |-> 0, calls |-> 0]
NotCalled == [term |-> "none", ret |-> ""]

-----------------------------------------------------------------------------
(* The image catalog                                                       *)

Image(nickname, img_name, sig_name, part_name, optional_if_no_image, type) ==
    [nickname |-> nickname, img_name |-> img_name, sig_name |-> sig_name,
     part_name |-> part_name, optional_if_no_image |-> optional_if_no_image,
     type |-> type]

images == <<
    Image("boot",     "boot.img",         "boot.sig",     "boot",     FALSE, "BootCritical"),
    Image("bootloader", "bootloader.img", "",             "bootloader", TRUE, "Extra"),
    Image("init_boot", "init_boot.img",   "init_boot.sig", "init_boot", TRUE, "BootCritical"),
    Image("",         "boot_other.img",   "boot.sig",     "boot",     TRUE,  "Normal"),
    Image("cache",    "cache.img",        "cache.sig",    "cache",    TRUE,  "Extra"),
    Image("dtbo",     "dtbo.img",         "dtbo.sig",     "dtbo",     TRUE,  "BootCritical"),
    Image("dts",      "dt.img",           "dt.sig",       "dts",      TRUE,  "BootCritical"),
    Image("odm",      "odm.img",          "odm.sig",      "odm",      TRUE,  "Normal"),
    Image("odm_dlkm", "odm_dlkm.img",     "odm_dlkm.sig", "odm_dlkm", TRUE,  "Normal"),
    Image("product",  "product.img",      "product.sig",  "product",  TRUE,  "Normal"),
    Image("pvmfw",    "pvmfw.img",        "pvmfw.sig",    "pvmfw",    TRUE,  "BootCritical"),
    Image("radio",    "radio.img",        "",             "radio",    TRUE,  "Extra"),
    Image("recovery", "recovery.img",     "recovery.sig", "recovery", TRUE,  "BootCritical"),
    Image("super",    "super.img",        "super.sig",    "super",    TRUE,  "Extra"),
    Image("system",   "system.img",       "system.sig",   "system",   FALSE, "Normal"),
    Image("system_dlkm", "system_dlkm.img", "system_dlkm.sig", "system_dlkm", TRUE, "Normal"),
    Image("system_ext", "system_ext.img", "system_ext.sig", "system_ext", TRUE, "Normal"),
    Image("",         "system_other.img", "system.sig",   "system",   TRUE,  "Normal"),
    Image("userdata", "userdata.img",     "userdata.sig", "userdata", TRUE,  "Extra"),
    Image("vbmeta",   "vbmeta.img",       "vbmeta.sig",   "vbmeta",   TRUE,  "BootCritical"),
    Image("vbmeta_system", "vbmeta_system.img", "vbmeta_system.sig", "vbmeta_system", TRUE, "BootCritical"),
    Image("vbmeta_vendor", "vbmeta_vendor.img", "vbmeta_vendor.sig", "vbmeta_vendor", TRUE, "BootCritical"),
    Image("vendor",   "vendor.img",       "vendor.sig",   "vendor",   TRUE,  "Normal"),
    Image("vendor_boot", "vendor_boot.img", "vendor_boot.sig", "vendor_boot", TRUE, "BootCritical"),
    Image("vendor_dlkm", "vendor_dlkm.img", "vendor_dlkm.sig", "vendor_dlkm", TRUE, "Normal"),
    Image("vendor_kernel_boot", "vendor_kernel_boot.img", "vendor_kernel_boot.sig", "vendor_kernel_boot", TRUE, "BootCritical"),
    Image("",         "vendor_other.img", "vendor.sig",   "vendor",   TRUE,  "Normal") >>

\* Image::IsSecondary: the entries without a nickname are the images of the
\* other slot.
IsSecondary(image) == image.nickname = ""

\* android::base::EndsWith(partition, "vbmeta" | "vbmeta_a" | "vbmeta_b"),
\* over the partition names of the model.
is_vbmeta_partition(partition) ==
    partition \in {"vbmeta", "vbmeta_a", "vbmeta_b"}

-----------------------------------------------------------------------------
(* Tasks                                                                   *)

Task(type, pname, fname, slot, apply_vbmeta, arg) ==
    [type |-> type, pname |-> pname, fname |-> fname, slot |-> slot,
     apply_vbmeta |-> apply_vbmeta, arg |-> arg]

FlashTask(slot, pname, fname, apply_vbmeta) ==
    Task("Flash", pname, fname, slot, apply_vbmeta, "")
RebootTask(target) == Task("Reboot", "", "", "", FALSE, target)
WipeTask(pname) == Task("Wipe", pname, "", "", FALSE, "")
UpdateSuperTask == Task("UpdateSuper", "", "", "", FALSE, "")
ResizeTask(pname, size, slot) == Task("Resize", pname, "", slot, FALSE, size)
DeleteTask(pname) == Task("Delete", pname, "", "", FALSE, "")
OptimizedFlashSuperTask == Task("OptimizedFlashSuper", "", "", "", FALSE, "")
\* a std::unique_ptr<Task> that holds nothing
nullptr == Task("null", "", "", "", FALSE, "")

-----------------------------------------------------------------------------
(* Dynamic partitions                                                      *)

\* FlashTask::GetPartitionAndSlot, with the naming of GetPartitionName: the
\* task's slot, else the current slot, appended to the partition; "all" has
\* no singular name (LOG(FATAL)).
GetPartitionName(pname, task_slot, current_slot) ==
    LET slot == IF task_slot = "" THEN current_slot ELSE task_slot
    IN  IF slot = "" THEN Returns(pname)
        ELSE IF slot = "all" THEN Dies
        ELSE Returns(pname \o "_" \o slot)

\* should_flash_in_userspace(metadata, partition_name): the partition is one
\* of the metadata's.
InMetadata(partition_name) == partition_name \in source.dynamic

\* should_flash_in_userspace(source, partition_name) with a source bound.
should_flash_in_userspace(partition_name) ==
    IF source.super_empty = "absent" THEN FALSE
    ELSE InMetadata(partition_name)

\* FlashTask::IsDynamicPartition(source, flash_task): Returns(TRUE/FALSE), or
\* the process ends in GetPartitionAndSlot.
IsDynamicPartition(flash_task) ==
    LET name == GetPartitionName(flash_task.pname, flash_task.slot, get_current_slot)
    IN  IF name.term # "return" THEN name
        ELSE Returns(should_flash_in_userspace(name.ret))

\* OptimizedFlashSuperTask::Initialize(fp, tasks): the task when the
\* optimization is enabled and available, else nothing.
Initialize(plan, list) ==
    IF /\ plan.should_optimize_flash_super
       /\ source.super_empty = "valid"
       /\ source.can_optimize
    THEN OptimizedFlashSuperTask
    ELSE nullptr

\* The loop of AddResizeTasks from task i on: the Resize tasks, the place of
\* the first dynamic Flash task (0: none), and whether the process ended.
RECURSIVE ResizeScan(_, _, _, _, _)
ResizeScan(plan, list, i, resize_tasks, loc) ==
    IF i > Len(list) THEN [term |-> "return", resize_tasks |-> resize_tasks, loc |-> loc]
    ELSE IF list[i].type # "Flash"
         THEN ResizeScan(plan, list, i + 1, resize_tasks, loc)
    ELSE LET dyn == IsDynamicPartition(list[i])
         IN  IF dyn.term # "return"
             THEN [term |-> dyn.term, resize_tasks |-> resize_tasks, loc |-> loc]
             ELSE IF dyn.ret
                  THEN ResizeScan(plan, list, i + 1,
                          Append(resize_tasks,
                                 ResizeTask(list[i].pname, "0", plan.slot_override)),
                          IF loc = 0 THEN i ELSE loc)
                  ELSE ResizeScan(plan, list, i + 1, resize_tasks, loc)

\* A mutant of AddResizeTasks: the Resize tasks are put at the end.
AddResizeTasks_at_end(plan, list) ==
    IF source.super_empty # "valid"
    THEN [term |-> "return", ok |-> FALSE, tasks |-> list]
    ELSE LET scan == ResizeScan(plan, list, 1, <<>>, 0)
         IN  IF scan.term # "return"
             THEN [term |-> scan.term, ok |-> FALSE, tasks |-> list]
             ELSE IF scan.loc = 0
             THEN [term |-> "return", ok |-> FALSE, tasks |-> list]
             ELSE [term |-> "return", ok |-> TRUE,
                   tasks |-> list \o scan.resize_tasks]

\* AddResizeTasks(fp, &tasks): [term, ok, tasks].
AddResizeTasks(plan, list) ==
    IF source.super_empty = "absent"
    THEN [term |-> "return", ok |-> FALSE, tasks |-> list]
    ELSE IF source.super_empty # "valid"
    THEN [term |-> "return", ok |-> FALSE, tasks |-> list]
    ELSE LET scan == ResizeScan(plan, list, 1, <<>>, 0)
         IN  IF scan.term # "return"
             THEN [term |-> scan.term, ok |-> FALSE, tasks |-> list]
             ELSE IF scan.loc = 0
             THEN [term |-> "return", ok |-> FALSE, tasks |-> list]
             ELSE [term |-> "return", ok |-> TRUE,
                   tasks |-> SubSeq(list, 1, scan.loc - 1) \o scan.resize_tasks
                               \o SubSeq(list, scan.loc, Len(list))]

\* The end of both collectors: the OptimizedFlashSuper task is appended, or
\* else the Resize tasks are inserted.  [term, tasks, note].
Augment(plan, list) ==
    IF Initialize(plan, list) # nullptr
    THEN [term |-> "return", tasks |-> Append(list, Initialize(plan, list)), note |-> {}]
    ELSE LET r == AddResizeTasks(plan, list)
         IN  [term |-> r.term, tasks |-> r.tasks,
              note |-> IF r.term = "return" /\ ~r.ok
                       THEN {"Failed to add resize tasks"} ELSE {}]

-----------------------------------------------------------------------------
(* The fastboot-info interpreter                                           *)

FASTBOOT_INFO_VERSION == 1

\* A line of fastboot-info.txt is the sequence of its fields between single
\* spaces; consecutive, leading or trailing spaces leave empty fields.
NonEmptyField(f) == f # ""

\* android::base::Tokenize(text, " "): the non-empty fields.
Tokenize(text) == SelectSeq(text, NonEmptyField)

\* The loop of ParseFlashCommand over parts[i..]: the arguments found.
RECURSIVE FlashArgs(_, _, _, _)
FlashArgs(plan, parts, i, acc) ==
    IF i > Len(parts) THEN acc
    ELSE IF parts[i] = "--apply-vbmeta"
         THEN FlashArgs(plan, parts, i + 1, [acc EXCEPT !.apply_vbmeta = TRUE])
    ELSE IF parts[i] = "--slot-other"
         THEN FlashArgs(plan, parts, i + 1, [acc EXCEPT !.slot = plan.secondary_slot])
    ELSE IF acc.partition = ""
         THEN FlashArgs(plan, parts, i + 1, [acc EXCEPT !.partition = parts[i]])
    ELSE IF acc.img_name = ""
         THEN FlashArgs(plan, parts, i + 1, [acc EXCEPT !.img_name = parts[i]])
    ELSE [acc EXCEPT !.unknown = TRUE]

ParseFlashCommand(plan, parts) ==
    LET a == FlashArgs(plan, parts, 1,
                       [apply_vbmeta |-> FALSE, slot |-> plan.slot_override,
                        partition |-> "", img_name |-> "", unknown |-> FALSE])
    IN  IF a.unknown THEN nullptr
        ELSE IF a.partition = "" THEN nullptr
        ELSE FlashTask(a.slot, a.partition,
                       IF a.img_name = "" THEN a.partition \o ".img" ELSE a.img_name,
                       a.apply_vbmeta)

ParseRebootCommand(plan, parts) ==
    IF parts = <<>> THEN RebootTask("")
    ELSE IF Len(parts) > 1 THEN nullptr
    ELSE RebootTask(parts[1])

ParseWipeCommand(plan, parts) ==
    IF Len(parts) # 1 THEN nullptr
    ELSE WipeTask(parts[1])

ParseFastbootInfoLine(plan, command) ==
    IF Len(command) = 0 THEN nullptr
    ELSE IF command[1] = "flash" THEN ParseFlashCommand(plan, Tail(command))
    ELSE IF command[1] = "reboot" THEN ParseRebootCommand(plan, Tail(command))
    ELSE IF command[1] = "update-super" /\ Len(command) = 1 THEN UpdateSuperTask
    ELSE IF command[1] = "erase" /\ Len(command) = 2
         THEN ParseWipeCommand(plan, Tail(command))
    ELSE nullptr

IsIgnore(command) ==
    Len(command) = 0 \/ FirstCharCode(command[1]) = Ord("#")

\* A mutant of CheckFastbootInfoRequirements: a version newer than the host's
\* is let through.
CheckFastbootInfoRequirements_any_version(command, host_tool_version) ==
    /\ Len(command) = 2
    /\ command[1] = "version"
    /\ ParseUint(command[2]).ok

CheckFastbootInfoRequirements(command, host_tool_version) ==
    IF Len(command) # 2 THEN FALSE
    ELSE IF command[1] # "version" THEN FALSE
    ELSE IF ~ParseUint(command[2]).ok THEN FALSE
    ELSE ParseUint(command[2]).v <= host_tool_version

\* The loop of ParseFastbootInfo from line i on, with the tasks so far:
\* [rejected, tasks]; rejected is the "return {}" of the loop.
RECURSIVE ParseLines(_, _, _, _)
ParseLines(plan, file, i, list) ==
    IF i > Len(file) THEN [rejected |-> FALSE, tasks |-> list]
    ELSE LET command == Tokenize(file[i])
         IN  IF IsIgnore(command) THEN ParseLines(plan, file, i + 1, list)
             ELSE IF Len(command) > 1 /\ command[1] = "version"
                  THEN IF ~CheckFastbootInfoRequirements(command, FASTBOOT_INFO_VERSION)
                       THEN [rejected |-> TRUE, tasks |-> <<>>]
                       ELSE ParseLines(plan, file, i + 1, list)
             ELSE IF Len(command) >= 2 /\ command[1] = "if-wipe" /\ ~plan.wants_wipe
                  THEN ParseLines(plan, file, i + 1, list)
             ELSE LET cmd  == IF Len(command) >= 2 /\ command[1] = "if-wipe"
                              THEN Tail(command) ELSE command
                      task == ParseFastbootInfoLine(plan, cmd)
                  IN  IF task = nullptr
                      THEN [rejected |-> TRUE, tasks |-> <<>>]
                      ELSE ParseLines(plan, file, i + 1, Append(list, task))

\* What a collector hands back: the augmented list, or no list when the
\* process ended on the way.
Built(augmented) ==
    [term |-> augmented.term, rejected |-> FALSE, tasks |-> augmented.tasks,
     note |-> augmented.note]
NoTasks(term) == [term |-> term, rejected |-> FALSE, tasks |-> <<>>, note |-> {}]

\* The end of ParseFastbootInfo: "return {}" on a rejected line, else the
\* tasks with the OptimizedFlashSuper or Resize tasks added.
ParsedTasks(plan, parsed) ==
    IF parsed.rejected
    THEN [term |-> "return", rejected |-> TRUE, tasks |-> <<>>, note |-> {"parse error"}]
    ELSE Built(Augment(plan, parsed.tasks))

\* A mutant of ParseFastbootInfo: if-wipe lines are kept whatever wants_wipe
\* says.
ParseFastbootInfo_always_wipe(plan, file) ==
    ParsedTasks(plan, ParseLines([plan EXCEPT !.wants_wipe = TRUE], file, 1, <<>>))

\* ParseFastbootInfo(fp, file): [term, rejected, tasks, note].
ParseFastbootInfo(plan, file) ==
    ParsedTasks(plan, ParseLines(plan, file, 1, <<>>))

-----------------------------------------------------------------------------
(* FlashAllTool: slots and task collection                                 *)

\* FlashAllTool::DetermineSlot: the plan afterwards.
DetermineSlot(plan) ==
    LET p1 == [plan EXCEPT !.current_slot =
                  IF plan.slot_override = "" THEN get_current_slot
                  ELSE plan.slot_override]
        secondary ==
            IF plan.slot_override # "" /\ plan.slot_override # "all"
            THEN get_other_slot(plan.slot_override, get_slot_count)
            ELSE get_other_slot(get_current_slot, get_slot_count)
    IN  IF plan.skip_secondary THEN p1
        ELSE IF secondary = ""
             THEN [p1 EXCEPT !.secondary_slot = secondary, !.skip_secondary = TRUE]
             ELSE [p1 EXCEPT !.secondary_slot = secondary]

\* A line of android-info.txt as ParseRequirementLine hands it on: whether
\* it was matched at all, the variable, the product it is for, reject or
\* require, and the options.
RequirementLine(ok, name, product, invert, options) ==
    [ok |-> ok, name |-> name, product |-> product, invert |-> invert,
     options |-> options]

\* The result of a step of CheckRequirements: how it ended and the catalog.
Checked(term, catalog) == [term |-> term, images |-> catalog]

\* HandlePartitionExists with optional_if_no_image of the named entry cleared.
ClearOptional(catalog, partition_name) ==
    [i \in 1..Len(catalog) |->
        IF catalog[i].nickname # "" /\ catalog[i].nickname = partition_name
        THEN [catalog[i] EXCEPT !.optional_if_no_image = FALSE]
        ELSE catalog[i]]

\* A mutant of HandlePartitionExists: the catalog stays as it is.
HandlePartitionExists_keeps_optional(catalog, options) ==
    IF ~dev.has_slot_ok THEN Checked("die", catalog)
    ELSE IF \E i \in 1..Len(catalog) : /\ catalog[i].nickname # ""
                                        /\ catalog[i].nickname = options[1]
         THEN Checked("return", catalog)
    ELSE Checked("die", catalog)

\* HandlePartitionExists(options) on the catalog: has-slot:<partition> must
\* be answered yes or no, and the partition be a nickname of the catalog.
HandlePartitionExists(catalog, options) ==
    IF ~dev.has_slot_ok THEN Checked("die", catalog)
    ELSE IF \E i \in 1..Len(catalog) : /\ catalog[i].nickname # ""
                                        /\ catalog[i].nickname = options[1]
         THEN Checked("return", ClearOptional(catalog, options[1]))
    ELSE Checked("die", ClearOptional(catalog, options[1]))

\* CheckRequirement for the variable "product", the one variable of the
\* model's device a requirement reads; the options of the model end in no '*'.
CheckRequirement(cur_product, name, product, invert, options) ==
    IF product # "" /\ product # cur_product THEN TRUE
    ELSE IF name # "product" \/ ~dev.product.ok THEN FALSE
    ELSE LET match == \E k \in 1..Len(options) : options[k] = dev.product.val
         IN  IF invert THEN ~match ELSE match

\* The loop of CheckRequirements(data, force_flash) from line i on.
RECURSIVE CheckRequirements(_, _, _, _)
CheckRequirements(catalog, lines, i, force_flash) ==
    IF i > Len(lines) THEN Checked("return", catalog)
    ELSE IF ~lines[i].ok THEN CheckRequirements(catalog, lines, i + 1, force_flash)
    ELSE IF lines[i].name = "partition-exists"
         THEN LET handled == HandlePartitionExists(catalog, lines[i].options)
              IN  IF handled.term = "die" THEN handled
                  ELSE CheckRequirements(handled.images, lines, i + 1, force_flash)
    ELSE IF \/ CheckRequirement(IF dev.product.ok THEN dev.product.val ELSE "",
                                lines[i].name, lines[i].product, lines[i].invert,
                                lines[i].options)
            \/ force_flash
         THEN CheckRequirements(catalog, lines, i + 1, force_flash)
    ELSE Checked("die", catalog)

\* The catalog once FlashAllTool::CheckRequirements has read android-info.txt.
Catalog == CheckRequirements(images, source.android_info, 1, fp.force_flash).images

\* A mutant of CollectImages: skip_secondary is not looked at.
RECURSIVE CollectImages_keeps_secondary(_, _, _)
CollectImages_keeps_secondary(plan, type, i) ==
    IF i > Len(images) THEN <<>>
    ELSE IF images[i].type = type
         THEN <<[image |-> i,
                 slot |-> IF IsSecondary(images[i]) THEN plan.secondary_slot
                          ELSE plan.slot_override]>>
                \o CollectImages_keeps_secondary(plan, type, i + 1)
    ELSE CollectImages_keeps_secondary(plan, type, i + 1)

\* The loop of FlashAllTool::CollectImages from catalog entry i on: the
\* entries (catalog index, slot) of one image type.
RECURSIVE CollectImages(_, _, _)
CollectImages(plan, type, i) ==
    IF i > Len(images) THEN <<>>
    ELSE IF IsSecondary(images[i]) /\ plan.skip_secondary
         THEN CollectImages(plan, type, i + 1)
    ELSE IF images[i].type = type
         THEN <<[image |-> i,
                 slot |-> IF IsSecondary(images[i]) THEN plan.secondary_slot
                          ELSE plan.slot_override]>>
                \o CollectImages(plan, type, i + 1)
    ELSE CollectImages(plan, type, i + 1)

boot_images_(plan) == CollectImages(plan, "BootCritical", 1)
os_images_(plan) == CollectImages(plan, "Normal", 1)

\* OpenFile(name) and load_buf_fd succeed.
CanLoad(name) == name \in source.files

\* FlashAllTool::AddFlashTasks(images, tasks) from entry i on: [term, tasks].
RECURSIVE AddFlashTasks(_, _, _)
AddFlashTasks(entries, i, list) ==
    IF i > Len(entries) THEN [term |-> "return", tasks |-> list]
    ELSE LET image == images[entries[i].image]
         IN  IF ~CanLoad(image.img_name)
             THEN IF Catalog[entries[i].image].optional_if_no_image
                  THEN AddFlashTasks(entries, i + 1, list)
                  ELSE [term |-> "die", tasks |-> list]
             ELSE AddFlashTasks(entries, i + 1,
                     Append(list, FlashTask(entries[i].slot, image.part_name,
                                            image.img_name,
                                            is_vbmeta_partition(image.part_name))))

\* The end of CollectTasksFromImageList, the OS images added: the list is
\* augmented.
ImageListTasks(plan, os) ==
    IF os.term # "return" THEN NoTasks(os.term)
    ELSE Built(Augment(plan, os.tasks))

\* CollectTasksFromImageList after the boot images: UpdateSuper (given as
\* sync) and the OS images follow.
AfterBootImages(plan, boot, sync) ==
    IF boot.term # "return" THEN NoTasks(boot.term)
    ELSE ImageListTasks(plan, AddFlashTasks(os_images_(plan), 1, boot.tasks \o sync))

\* A mutant of CollectTasksFromImageList: the super partition is synced
\* before anything is flashed.
CollectTasksFromImageList_super_first(plan) ==
    AfterBootImages(plan, AddFlashTasks(boot_images_(plan), 1, <<UpdateSuperTask>>), <<>>)

\* FlashAllTool::CollectTasksFromImageList: [term, rejected, tasks, note].
CollectTasksFromImageList(plan) ==
    AfterBootImages(plan, AddFlashTasks(boot_images_(plan), 1, <<>>), <<UpdateSuperTask>>)

\* FlashAllTool::CollectTasksFromFastbootInfo.
CollectTasksFromFastbootInfo(plan) ==
    IF "fastboot-info.txt" \notin source.files
    THEN CollectTasksFromImageList(plan)
    ELSE ParseFastbootInfo(plan, source.script)

\* A mutant of IsStaticFlashTask: the tasks that are no Flash tasks stay too.
IsStaticFlashTask_keeps_others(t) ==
    \/ t.type # "Flash"
    \/ /\ GetPartitionName(t.pname, t.slot, get_current_slot).term = "return"
       /\ ~should_flash_in_userspace(GetPartitionName(t.pname, t.slot, get_current_slot).ret)

\* The task stays under exclude_dynamic_partitions: a Flash task whose
\* partition is not flashed in userspace.
IsStaticFlashTask(t) ==
    /\ t.type = "Flash"
    /\ GetPartitionName(t.pname, t.slot, get_current_slot).term = "return"
    /\ ~should_flash_in_userspace(GetPartitionName(t.pname, t.slot, get_current_slot).ret)

\* The end of FlashAllTool::CollectTasks: under exclude_dynamic_partitions
\* only the Flash tasks of static partitions stay.
WithoutDynamicPartitions(plan, r) ==
    IF r.term = "return" /\ plan.exclude_dynamic_partitions
    THEN IF \E i \in 1..Len(r.tasks) :
               /\ r.tasks[i].type = "Flash"
               /\ GetPartitionName(r.tasks[i].pname, r.tasks[i].slot,
                                   get_current_slot).term # "return"
         THEN [r EXCEPT !.term = "die"]
         ELSE [r EXCEPT !.tasks = SelectSeq(r.tasks, IsStaticFlashTask)]
    ELSE r

\* FlashAllTool::CollectTasks.
CollectTasks(plan) ==
    WithoutDynamicPartitions(plan,
        IF plan.should_use_fastboot_info
        THEN CollectTasksFromFastbootInfo(plan)
        ELSE CollectTasksFromImageList(plan))

-----------------------------------------------------------------------------
(* Device commands of the operations                                       *)

\* A device command as the driver is asked to run it.
Cmd(name, arg) == [cmd |-> name, arg |-> arg]

\* android::base::Split(part, ":") of a partition argument.
part_tokens(part) ==
    IF part = "vendor_boot:default" THEN <<"vendor_boot", "default">> ELSE <<part>>

\* android::base::Join(tokens, ":").
RECURSIVE JoinColon(_)
JoinColon(tokens) ==
    IF Len(tokens) = 1 THEN tokens[1]
    ELSE tokens[1] \o ":" \o JoinColon(Tail(tokens))

\* A mutant of do_for_partition: the slot is appended to the whole argument,
\* behind the colon suffix.
do_for_partition_suffix_last(part, slot, force_slot) ==
    IF dev.has_slot_ok /\ part_tokens(part)[1] \in dev.has_slot
    THEN IF slot = ""
         THEN IF get_current_slot = "" THEN Dies
              ELSE Returns(part \o "_" \o get_current_slot)
         ELSE Returns(part \o "_" \o slot)
    ELSE Returns(part)

\* A mutant of do_for_partition: a slot forced on a partition without slots
\* is fatal.
do_for_partition_force_fails(part, slot, force_slot) ==
    IF dev.has_slot_ok /\ part_tokens(part)[1] \in dev.has_slot
    THEN IF slot = ""
         THEN IF get_current_slot = "" THEN Dies
              ELSE Returns(JoinColon(<<part_tokens(part)[1] \o "_" \o get_current_slot>>
                                      \o Tail(part_tokens(part))))
         ELSE Returns(JoinColon(<<part_tokens(part)[1] \o "_" \o slot>>
                                 \o Tail(part_tokens(part))))
    ELSE IF force_slot /\ slot # "" THEN Dies ELSE Returns(part)

\* do_for_partition warns: a slot was requested (force_slot) for a partition
\* that does not support slots.
SlotWarning(part, slot, force_slot) ==
    /\ ~(dev.has_slot_ok /\ part_tokens(part)[1] \in dev.has_slot)
    /\ force_slot /\ slot # ""

\* do_for_partition(part, slot, func, force_slot): the name func is called
\* with, or the process dies.
do_for_partition(part, slot, force_slot) ==
    LET tokens == part_tokens(part)
        has_slot == IF dev.has_slot_ok /\ tokens[1] \in dev.has_slot
                    THEN "yes" ELSE "no"
    IN  IF has_slot = "yes"
        THEN IF slot = ""
             THEN IF get_current_slot = "" THEN Dies
                  ELSE Returns(JoinColon(<<tokens[1] \o "_" \o get_current_slot>>
                                          \o Tail(tokens)))
             ELSE Returns(JoinColon(<<tokens[1] \o "_" \o slot>> \o Tail(tokens)))
        ELSE Returns(part)

\* The loop of do_for_partitions over the slots i..: the names, in order.
RECURSIVE AllSlotNames(_, _, _)
AllSlotNames(part, i, force_slot) ==
    IF i >= get_slot_count THEN <<>>
    ELSE <<do_for_partition(part, Chr(i + Ord("a")), force_slot).ret>>
            \o AllSlotNames(part, i + 1, force_slot)

\* do_for_partitions(part, slot, func, force_slot): [term, names], the names
\* func is called with before the function returns or the process dies.
do_for_partitions(part, slot, force_slot) ==
    IF slot = "all"
    THEN IF ~dev.has_slot_ok THEN [term |-> "die", names |-> <<>>]
         ELSE IF part_tokens(part)[1] \in dev.has_slot
              THEN [term |-> "return", names |-> AllSlotNames(part, 0, force_slot)]
              ELSE [term |-> do_for_partition(part, "", force_slot).term,
                    names |-> IF do_for_partition(part, "", force_slot).term = "return"
                              THEN <<do_for_partition(part, "", force_slot).ret>>
                              ELSE <<>>]
    ELSE [term |-> do_for_partition(part, slot, force_slot).term,
          names |-> IF do_for_partition(part, slot, force_slot).term = "return"
                    THEN <<do_for_partition(part, slot, force_slot).ret>>
                    ELSE <<>>]

is_logical(partition) == partition \in dev.logical

\* file_string.substr(0, file_string.find('.')) + ".sig": the stem of an
\* image name of the catalog, or the whole name when it has no dot.
Stems ==
    UNION {{images[i].part_name, images[i].nickname,
            images[i].part_name \o "_other"} : i \in 1..Len(images)} \cup {"dt"}
SignatureName(fname) ==
    IF \E stem \in Stems : stem \o ".img" = fname
    THEN (CHOOSE stem \in Stems : stem \o ".img" = fname) \o ".sig"
    ELSE fname \o ".sig"

\* do_flash(pname, fname, apply_vbmeta, fp) with a source bound: [term, cmds],
\* the device commands it issues.
do_flash(pname, fname) ==
    IF ~CanLoad(fname) THEN [term |-> "die", cmds |-> <<>>]
    ELSE [term |-> "return",
          cmds |-> (IF SignatureName(fname) \in source.files
                    THEN <<Cmd("Download", "signature"), Cmd("RawCommand", "signature")>>
                    ELSE <<>>)
                   \o (IF is_logical(pname)
                       THEN <<Cmd("ResizePartition", pname)>> ELSE <<>>)
                   \o <<Cmd("FlashPartition", pname)>>]

\* func = do_flash over the names of do_for_partitions: [term, cmds].
RECURSIVE FlashEach(_, _, _)
FlashEach(names, fname, i) ==
    IF i > Len(names) THEN [term |-> "return", cmds |-> <<>>]
    ELSE LET one == do_flash(names[i], fname)
         IN  IF one.term # "return" THEN one
             ELSE [term |-> FlashEach(names, fname, i + 1).term,
                   cmds |-> one.cmds \o FlashEach(names, fname, i + 1).cmds]

\* Task::Run of each variant: [term, cmds], the device commands the task
\* issues, in order, and whether Run returns or the process dies after them.
TaskCommands(t) ==
    CASE t.type = "Flash" ->
            LET parts == do_for_partitions(t.pname, t.slot, TRUE)
                flashed == FlashEach(parts.names, t.fname, 1)
            IN  IF flashed.term # "return" THEN flashed
                ELSE [term |-> parts.term, cmds |-> flashed.cmds]
      [] t.type = "Reboot" ->
            [term |-> "return", cmds |-> <<Cmd("Reboot", t.arg)>>]
      [] t.type = "Wipe" ->
            [term |-> "return",
             cmds |-> <<Cmd("Erase", t.pname)>>
                      \o (IF t.pname \in dev.formattable
                          THEN <<Cmd("FlashPartition", t.pname)>> ELSE <<>>)]
      [] t.type = "UpdateSuper" ->
            [term |-> "return",
             cmds |-> IF source.super_empty = "absent" THEN <<>>
                      ELSE <<Cmd("Download", "super_empty.img"),
                             Cmd("RawCommand", "update-super")>>]
      [] t.type = "Resize" ->
            [term |-> "return", cmds |-> <<Cmd("ResizePartition", t.pname)>>]
      [] t.type = "Delete" ->
            [term |-> "return", cmds |-> <<Cmd("DeletePartition", t.pname)>>]
      [] t.type = "OptimizedFlashSuper" ->
            [term |-> "return", cmds |-> <<Cmd("FlashPartition", "super")>>]

\* A mutant of Epilog: a failed command is reported and the process goes on.
Epilog_goes_on(status) == FALSE

\* Epilog(status): the process dies ("Command failed") on a non-zero status.
Epilog(status) == status # 0

\* The statuses a device command may end with (0: fastboot::SUCCESS).
Statuses == {0, 1}

-----------------------------------------------------------------------------
(* A flashall / update invocation                                          *)

\* The device command of set_active(slot_override), if it issues one.
set_active(slot_override) ==
    IF ~supports_AB THEN <<>>
    ELSE IF slot_override # "" THEN <<Cmd("SetActive", slot_override)>>
    ELSE IF get_current_slot # "" THEN <<Cmd("SetActive", get_current_slot)>>
    ELSE <<>>

\* The device command of CancelSnapshotIfNeeded, if it issues one.
CancelSnapshotIfNeeded ==
    IF /\ dev.snapshot_status.ok
       /\ dev.snapshot_status.val # ""
       /\ dev.snapshot_status.val # "none"
    THEN <<Cmd("SnapshotUpdateCommand", "cancel")>>
    ELSE <<>>

\* The driver runs the command c (if any) and reports its status to the
\* epilog callback, which is Epilog.
Issue(c) ==
    IF c = <<>>
    THEN cmds' = cmds /\ dead' = dead
    ELSE \E status \in Statuses :
            /\ cmds' = Append(cmds, [cmd |-> c[1].cmd, arg |-> c[1].arg,
                                     status |-> status])
            /\ dead' = Epilog(status)

\* The slot arguments as FastBootTool::Main settles them before the commands:
\* [term, slot_override, next_active, wants_set_active].
MainSlots ==
    LET so == IF fp.slot_override # "" THEN verify_slot(fp.slot_override, TRUE)
              ELSE Returns("")
        na == IF next_active # "" THEN verify_slot(next_active, FALSE)
              ELSE Returns("")
        cur == IF FirstCharCode(dev.current_slot.val) = Ord("_")
               THEN EraseFirst(dev.current_slot.val) ELSE dev.current_slot.val
        out(t, n, w) == [term |-> t, slot_override |-> so.ret,
                         next_active |-> n, wants_set_active |-> w]
    IN  IF so.term # "return" THEN out(so.term, "", fp.wants_set_active)
        ELSE IF na.term # "return" THEN out(na.term, "", fp.wants_set_active)
        ELSE IF fp.wants_set_active /\ na.ret = ""
             THEN IF so.ret = ""
                  THEN IF dev.current_slot.ok
                       THEN out(verify_slot(cur, FALSE).term,
                                verify_slot(cur, FALSE).ret, TRUE)
                       ELSE out("return", na.ret, FALSE)
                  ELSE out(verify_slot(so.ret, FALSE).term,
                           verify_slot(so.ret, FALSE).ret, TRUE)
             ELSE out("return", na.ret, fp.wants_set_active)

\* Main, before the command loop: the slot arguments are verified.
MainVerifySlots ==
    /\ pc = "main" /\ ~dead
    /\ dead' = (MainSlots.term # "return")
    /\ IF MainSlots.term = "return"
       THEN /\ fp' = [fp EXCEPT !.slot_override = MainSlots.slot_override,
                                !.wants_set_active = MainSlots.wants_set_active]
            /\ next_active' = MainSlots.next_active
            /\ pc' = "command"
       ELSE UNCHANGED <<fp, next_active, pc>>
    /\ UNCHANGED <<source, dev, tasks_, tasks, run, cmds, note, probe,
                   target_sparse_limit, link>>

\* Main, command "flashall": do_flashall binds the local image source.
MainFlashall ==
    /\ pc = "command" /\ ~dead
    /\ source.kind = "local"
    /\ fp' = IF fp.slot_override = "all"
             THEN [fp EXCEPT !.skip_secondary = TRUE] ELSE fp
    /\ pc' = "Flash"
    /\ UNCHANGED <<source, dev, tasks_, tasks, run, cmds, dead, note, probe, next_active,
                   target_sparse_limit, link>>

\* Main, command "update": do_update opens the archive and binds it.
MainUpdate ==
    /\ pc = "command" /\ ~dead
    /\ source.kind = "zip"
    /\ pc' = "Flash"
    /\ UNCHANGED <<fp, source, dev, tasks_, tasks, run, cmds, dead, note, probe, next_active,
                   target_sparse_limit, link>>

\* FlashAllTool::Flash: DumpInfo and CheckRequirements.
FlashCheckRequirements ==
    /\ pc = "Flash" /\ ~dead
    /\ dead' = \/ "android-info.txt" \notin source.files
                \/ CheckRequirements(images, source.android_info, 1,
                                     fp.force_flash).term = "die"
    /\ pc' = IF dead' THEN pc ELSE "set_active"
    /\ UNCHANGED <<fp, source, dev, tasks_, tasks, run, cmds, note, probe, next_active,
                   target_sparse_limit, link>>

\* FlashAllTool::Flash: the slot is changed first.
FlashSetActive ==
    /\ pc = "set_active" /\ ~dead
    /\ Issue(set_active(IF fp.slot_override = "all" THEN "a" ELSE fp.slot_override))
    /\ pc' = IF dead' THEN pc ELSE "determine_slot"
    /\ UNCHANGED <<fp, source, dev, tasks_, tasks, run, note, probe, next_active,
                   target_sparse_limit, link>>

\* FlashAllTool::Flash: DetermineSlot.
FlashDetermineSlot ==
    /\ pc = "determine_slot" /\ ~dead
    /\ fp' = DetermineSlot(fp)
    /\ pc' = "cancel_snapshot"
    /\ UNCHANGED <<source, dev, tasks_, tasks, run, cmds, dead, note, probe, next_active,
                   target_sparse_limit, link>>

\* FlashAllTool::Flash: CancelSnapshotIfNeeded.
FlashCancelSnapshot ==
    /\ pc = "cancel_snapshot" /\ ~dead
    /\ Issue(CancelSnapshotIfNeeded)
    /\ pc' = IF dead' THEN pc ELSE "collect"
    /\ UNCHANGED <<fp, source, dev, tasks_, tasks, run, note, probe, next_active,
                   target_sparse_limit, link>>

\* A mutant of FlashCollectTasks: the secondary slot is cleared again.
FlashCollectTasks_clears_secondary ==
    /\ pc = "collect" /\ ~dead
    /\ fp' = [fp EXCEPT !.secondary_slot = ""]
    /\ LET collected == CollectTasks(fp)
       IN  /\ dead' = (collected.term # "return")
           /\ note' = note \cup collected.note
           /\ IF dead'
              THEN UNCHANGED <<tasks_, run, pc>>
              ELSE /\ tasks_' = collected.tasks
                   /\ run' = [run EXCEPT !.list = "flash", !.task = 1, !.cmd = 0,
                                         !.begun = FALSE]
                   /\ pc' = "run_flash"
    /\ UNCHANGED <<source, dev, tasks, cmds, probe, next_active,
                   target_sparse_limit, link>>

\* FlashAllTool::Flash: tasks_ = CollectTasks().
FlashCollectTasks ==
    /\ pc = "collect" /\ ~dead
    /\ LET collected == CollectTasks(fp)
       IN  /\ dead' = (collected.term # "return")
           /\ note' = note \cup collected.note
           /\ IF dead'
              THEN UNCHANGED <<tasks_, run, pc>>
              ELSE /\ tasks_' = collected.tasks
                   /\ run' = [run EXCEPT !.list = "flash", !.task = 1, !.cmd = 0,
                                         !.begun = FALSE]
                   /\ pc' = "run_flash"
    /\ UNCHANGED <<fp, source, dev, tasks, cmds, probe, next_active,
                   target_sparse_limit, link>>

\* The list the running loop iterates over, and its current task.
RunList == IF run.list = "flash" THEN tasks_ ELSE tasks
RunTask == RunList[run.task]

\* for (auto& task : list) task->Run(): Run() of the next task is entered.
TaskBegin ==
    /\ pc \in {"run_flash", "run_main"} /\ ~dead
    /\ run.task <= Len(RunList)
    /\ ~run.begun
    /\ run' = [run EXCEPT !.begun = TRUE,
                          !.ran = Append(@, [list |-> run.list, index |-> run.task,
                                             at |-> Len(cmds)])]
    /\ UNCHANGED <<fp, source, dev, pc, tasks_, tasks, cmds, dead, note, probe, next_active,
                   target_sparse_limit, link>>

\* The running task issues its next device command.
TaskCommand ==
    /\ pc \in {"run_flash", "run_main"} /\ ~dead
    /\ run.task <= Len(RunList)
    /\ run.begun
    /\ run.cmd < Len(TaskCommands(RunTask).cmds)
    /\ Issue(<<TaskCommands(RunTask).cmds[run.cmd + 1]>>)
    /\ run' = [run EXCEPT !.cmd = @ + 1]
    /\ UNCHANGED <<fp, source, dev, pc, tasks_, tasks, note, probe, next_active,
                   target_sparse_limit, link>>

\* Run() of the running task returns, or the process dies in it.
TaskEnd ==
    /\ pc \in {"run_flash", "run_main"} /\ ~dead
    /\ run.task <= Len(RunList)
    /\ run.begun
    /\ run.cmd = Len(TaskCommands(RunTask).cmds)
    /\ dead' = (TaskCommands(RunTask).term # "return")
    /\ run' = IF dead' THEN run
              ELSE [run EXCEPT !.task = @ + 1, !.cmd = 0, !.begun = FALSE]
    /\ UNCHANGED <<fp, source, dev, pc, tasks_, tasks, cmds, note, probe, next_active,
                   target_sparse_limit, link>>

\* Flash() returns to Main, which queues the final reboot.
FlashReturn ==
    /\ pc = "run_flash" /\ ~dead
    /\ run.task > Len(tasks_)
    /\ tasks' = IF fp.skip_reboot THEN tasks ELSE Append(tasks, RebootTask(""))
    /\ run' = [run EXCEPT !.list = "none", !.task = 0]
    /\ pc' = "main_end"
    /\ UNCHANGED <<fp, source, dev, tasks_, cmds, dead, note, probe, next_active,
                   target_sparse_limit, link>>

\* A mutant of MainWipe: the wipe tasks go to the end of the list.
MainWipe_at_end ==
    /\ pc = "main_end" /\ ~dead
    /\ IF fp.wants_wipe
       THEN /\ Issue(IF fp.force_flash THEN CancelSnapshotIfNeeded ELSE <<>>)
            /\ tasks' = tasks \o <<WipeTask("userdata"), WipeTask("cache"),
                                   WipeTask("metadata")>>
       ELSE UNCHANGED <<cmds, dead, tasks>>
    /\ pc' = IF dead' THEN pc ELSE "main_set_active"
    /\ UNCHANGED <<fp, source, dev, tasks_, run, note, probe, next_active,
                   target_sparse_limit, link>>

\* Main after the command loop: the wipe tasks go to the front of the list.
MainWipe ==
    /\ pc = "main_end" /\ ~dead
    /\ IF fp.wants_wipe
       THEN /\ Issue(IF fp.force_flash THEN CancelSnapshotIfNeeded ELSE <<>>)
            /\ tasks' = <<WipeTask("userdata"), WipeTask("cache"),
                          WipeTask("metadata")>> \o tasks
       ELSE UNCHANGED <<cmds, dead, tasks>>
    /\ pc' = IF dead' THEN pc ELSE "main_set_active"
    /\ UNCHANGED <<fp, source, dev, tasks_, run, note, probe, next_active,
                   target_sparse_limit, link>>

\* Main: fb->SetActive(next_active) when --set-active was given.
MainSetActive ==
    /\ pc = "main_set_active" /\ ~dead
    /\ Issue(IF fp.wants_set_active THEN <<Cmd("SetActive", next_active)>> ELSE <<>>)
    /\ pc' = IF dead' THEN pc ELSE "run_main"
    /\ run' = [run EXCEPT !.list = "main", !.task = 1, !.cmd = 0, !.begun = FALSE]
    /\ UNCHANGED <<fp, source, dev, tasks_, tasks, note, probe, next_active,
                   target_sparse_limit, link>>

\* Main returns 0 after its task loop.
MainReturn ==
    /\ pc = "run_main" /\ ~dead
    /\ run.task > Len(tasks)
    /\ pc' = "done"
    /\ UNCHANGED <<fp, source, dev, tasks_, tasks, run, cmds, dead, note, probe, next_active,
                   target_sparse_limit, link>>

\* The image files of the catalog; boot.img and system.img are the two a
\* source must deliver.
ImageNames == {images[i].img_name : i \in 1..Len(images)}
RequiredFiles == {"android-info.txt", "boot.img", "system.img"}

\* The sets of at most n elements of S.
RECURSIVE UpTo(_, _)
UpTo(S, n) ==
    IF n = 0 THEN {{}}
    ELSE UpTo(S, n - 1) \cup {X \cup {e} : X \in UpTo(S, n - 1), e \in S}

\* A device with A/B slots, the current one being "a".
ABDevice ==
    [DefaultDevice EXCEPT !.slot_count = Reply("2"), !.current_slot = Reply("a"),
                          !.has_slot = {"boot", "system", "vendor"}]

\* A device without slots.
PlainDevice ==
    [DefaultDevice EXCEPT !.slot_count = Reply("0"), !.formattable = {"userdata"}]

\* Scripts of an invocation: lines of the interpreter's pool.
RunLinePool ==
    {<<"version", "1">>, <<"flash", "boot">>, <<"bogus">>,
     <<"if-wipe", "erase", "userdata">>}
RunScripts == UNION {[1..n -> RunLinePool] : n \in 0..MaxLines}

\* Devices and partition metadata of the image-list runs.
Metadata(super, dyn, opt) == [super |-> super, dyn |-> dyn, opt |-> opt]
CatalogScenarios ==
    {[dev |-> PlainDevice, skip |-> TRUE, meta |-> Metadata("absent", {}, FALSE)],
     [dev |-> PlainDevice, skip |-> FALSE, meta |-> Metadata("valid", {}, FALSE)],
     [dev |-> ABDevice, skip |-> FALSE, meta |-> Metadata("absent", {}, FALSE)],
     [dev |-> ABDevice, skip |-> FALSE,
      meta |-> Metadata("valid", {"system_a", "vendor_a"}, TRUE)],
     [dev |-> ABDevice, skip |-> TRUE,
      meta |-> Metadata("valid", {"system_a", "vendor_a"}, FALSE)],
     [dev |-> ABDevice, skip |-> FALSE,
      meta |-> Metadata("valid", {"boot_a", "system_a", "system_b"}, FALSE)]}

\* Image-list runs: any few catalog images next to the required ones, on a
\* device with or without slots, with or without partition metadata; and
\* sources that lack a required file or hold a signature.
InitCatalog ==
    /\ \/ \E extra \in UpTo(ImageNames \ RequiredFiles, MaxPresent),
             sc \in CatalogScenarios :
             /\ source = [NoSource EXCEPT !.files = RequiredFiles \cup extra,
                                          !.super_empty = sc.meta.super,
                                          !.dynamic = sc.meta.dyn,
                                          !.can_optimize = sc.meta.opt]
             /\ dev = [sc.dev EXCEPT !.logical = sc.meta.dyn]
             /\ fp = [DefaultPlan EXCEPT !.skip_secondary = sc.skip,
                                         !.skip_reboot = TRUE,
                                         !.should_optimize_flash_super = TRUE]
       \/ /\ \E files \in {RequiredFiles \ {missing} : missing \in RequiredFiles}
                            \cup {RequiredFiles \cup {"boot.sig"}} :
               source = [NoSource EXCEPT !.files = files]
          /\ dev = PlainDevice
          /\ fp = [DefaultPlan EXCEPT !.skip_reboot = TRUE]
    /\ next_active = ""

\* Slot arguments of every kind on devices of every kind.
InitSlots ==
    /\ \E so \in {"", "a", "b", "all", "other", "z"}, kind \in {"local", "zip"},
          count \in {NoReply, Reply("0"), Reply("2")},
          current \in {NoReply, Reply("a"), Reply("_b")},
          wsa \in BOOLEAN, answers \in BOOLEAN :
          /\ fp = [DefaultPlan EXCEPT !.slot_override = so, !.wants_set_active = wsa]
          /\ source = [NoSource EXCEPT !.kind = kind, !.files = RequiredFiles]
          /\ dev = [DefaultDevice EXCEPT !.slot_count = count,
                                        !.current_slot = current,
                                        !.has_slot_ok = answers,
                                        !.has_slot = {"boot", "system"}]
    /\ next_active \in {"", "b"}

\* Runs whose source holds an image for the other slot.
InitSecondary ==
    /\ \E so \in {"", "a", "all"}, kind \in {"local", "zip"},
          extra \in {{"system_other.img"}, {"system_other.img", "vendor.img"}} :
          /\ fp = [DefaultPlan EXCEPT !.slot_override = so, !.skip_reboot = TRUE]
          /\ source = [NoSource EXCEPT !.kind = kind,
                                       !.files = RequiredFiles \cup extra]
          /\ dev = ABDevice
    /\ next_active = ""

\* Lines of android-info.txt: partitions the device must have, a line that
\* matches no pattern, and a requirement on the product.
PartitionExists(name) == RequirementLine(TRUE, "partition-exists", "", FALSE, <<name>>)
RequirementPool ==
    {PartitionExists("vendor"), PartitionExists("userdata"), PartitionExists("nosuch"),
     RequirementLine(FALSE, "", "", FALSE, <<>>),
     RequirementLine(TRUE, "product", "", FALSE, <<"x">>)}

\* Runs whose android-info.txt states requirements, with and without the
\* image of vendor, with and without a fastboot-info.txt in use.
InitRequirements ==
    /\ \E n \in 0..MaxRequirements, force \in BOOLEAN, product \in {"x", "y"},
          device \in {ABDevice, PlainDevice, [ABDevice EXCEPT !.has_slot_ok = FALSE]},
          extra \in {{}, {"vendor.img"}, {"fastboot-info.txt"}} :
          \E lines \in [1..n -> RequirementPool] :
             /\ fp = [DefaultPlan EXCEPT
                         !.force_flash = force,
                         !.skip_reboot = TRUE,
                         !.should_use_fastboot_info = "fastboot-info.txt" \in extra]
             /\ source = [NoSource EXCEPT
                             !.files = RequiredFiles \cup extra,
                             !.android_info = lines,
                             !.script = IF "fastboot-info.txt" \in extra
                                        THEN <<<<"version", "1">>, <<"flash", "boot">>>>
                                        ELSE <<>>]
             /\ dev = [device EXCEPT !.product = Reply(product)]
    /\ next_active = ""

\* Script runs: fastboot-info.txt of a few lines, wiping or not.
InitScripts ==
    /\ \E script \in RunScripts, reboot \in BOOLEAN,
          wipe \in {<<FALSE, FALSE>>, <<TRUE, FALSE>>, <<TRUE, TRUE>>} :
          /\ fp = [DefaultPlan EXCEPT !.should_use_fastboot_info = TRUE,
                                      !.wants_wipe = wipe[1],
                                      !.force_flash = wipe[2],
                                      !.skip_reboot = ~reboot]
          /\ source = [NoSource EXCEPT
                          !.files = RequiredFiles \cup {"fastboot-info.txt"},
                          !.script = script]
          /\ dev \in {[ABDevice EXCEPT !.snapshot_status = Reply("snapshotted")],
                      PlainDevice}
    /\ next_active = ""

Init ==
    /\ pc = "main"
    /\ tasks_ = <<>>
    /\ tasks = <<>>
    /\ run = NoRun
    /\ cmds = <<>>
    /\ dead = FALSE
    /\ note = {}
    /\ target_sparse_limit = WideOf(-1)
    /\ link = NoLink
    /\ probe = NoProbe
    /\ (InitCatalog \/ InitSlots \/ InitSecondary \/ InitRequirements \/ InitScripts)

Next ==
    \/ MainVerifySlots
    \/ MainFlashall
    \/ MainUpdate
    \/ FlashCheckRequirements
    \/ FlashSetActive
    \/ FlashDetermineSlot
    \/ FlashCancelSnapshot
    \/ FlashCollectTasks
    \/ TaskBegin
    \/ TaskCommand
    \/ TaskEnd
    \/ FlashReturn
    \/ MainWipe
    \/ MainSetActive
    \/ MainReturn

Spec == Init /\ [][Next]_vars

-----------------------------------------------------------------------------
(* Properties of an invocation                                             *)

\* Flash() has built its task list.
Collected == pc \in {"run_flash", "main_end", "main_set_active", "run_main", "done"}

\* The list was built from the catalog.
CatalogStrategy ==
    ~fp.should_use_fastboot_info \/ "fastboot-info.txt" \notin source.files

\* The catalog type of the image a Flash task writes.
ImageTypeOf(t) ==
    images[CHOOSE i \in 1..Len(images) : images[i].img_name = t.fname].type

Places(type) == {i \in 1..Len(tasks_) : tasks_[i].type = type}

\* C1: in the list the catalog strategy builds, for any images present and
\* either skip_secondary, there is a single UpdateSuper task, every Flash
\* task of a BootCritical image stands before it and every Flash task of a
\* Normal image after it, the Resize / OptimizedFlashSuper tasks included.
C1_CatalogOrder ==
    (Collected /\ CatalogStrategy) =>
        /\ Cardinality(Places("UpdateSuper")) = 1
        /\ \A i \in Places("Flash"), u \in Places("UpdateSuper") :
              /\ ImageTypeOf(tasks_[i]) = "BootCritical" => i < u
              /\ ImageTypeOf(tasks_[i]) = "Normal" => i > u
              /\ ImageTypeOf(tasks_[i]) \in {"BootCritical", "Normal"}

\* A list with Resize tasks, a secondary image and two boot-critical images.
C1_Witness ==
    /\ Collected /\ CatalogStrategy
    /\ Places("Resize") # {}
    /\ \E i \in Places("Flash") : tasks_[i].fname = "system_other.img"
    /\ Cardinality({i \in Places("Flash") :
                       ImageTypeOf(tasks_[i]) = "BootCritical"}) >= 2

\* C2: the tasks of Flash's list and then of Main's list are run in list
\* order, each once, a task is entered only after every earlier command
\* succeeded, and a command that failed is the last one: the process is dead.
C2_SequentialAndFailFast ==
    /\ \A k \in 1..Len(run.ran) :
          /\ k = 1 => run.ran[k].index = 1
          /\ k > 1 =>
                \/ /\ run.ran[k].list = run.ran[k - 1].list
                   /\ run.ran[k].index = run.ran[k - 1].index + 1
                \/ /\ run.ran[k - 1].list = "flash" /\ run.ran[k].list = "main"
                   /\ run.ran[k - 1].index = Len(tasks_)
                   /\ run.ran[k].index = 1
          /\ run.ran[k].list = "main" \/ run.ran[k].index <= Len(tasks_)
          /\ \A j \in 1..run.ran[k].at : cmds[j].status = 0
    /\ \A j \in 1..Len(cmds) :
          cmds[j].status # 0 => (j = Len(cmds) /\ dead)

\* A command of a task of Main's list failed after Flash's list ran.
C2_Witness ==
    /\ dead
    /\ Len(tasks_) >= 2
    /\ run.list = "main" /\ run.begun
    /\ Len(cmds) > 0 /\ cmds[Len(cmds)].status # 0

\* The primary images of one type the source holds, in catalog order.
PresentPrimary(type) ==
    SelectSeq(images, LAMBDA im : /\ im.type = type
                                  /\ im.nickname # ""
                                  /\ im.img_name \in source.files)

\* The metadata names no dynamic partition (or there is no metadata), and
\* so nothing to resize or to build a super image from.
NoDynamicPartitions ==
    \/ source.super_empty # "valid"
    \/ source.dynamic = {} /\ ~source.can_optimize

FlashOf(t, im) ==
    /\ t.type = "Flash" /\ t.pname = im.part_name /\ t.fname = im.img_name
    /\ t.slot = fp.slot_override

\* C7: catalog strategy, skip_secondary set, slot count 0, no dynamic
\* partitions: the list is one Flash per present BootCritical image in catalog
\* order, UpdateSuper, one Flash per present Normal primary image in catalog
\* order, and nothing else; for {boot, system} it is
\* [Flash(boot), UpdateSuper, Flash(system)].
C7_PlainCatalogList ==
    (/\ Collected /\ CatalogStrategy
     /\ fp.skip_secondary /\ get_slot_count = 0 /\ NoDynamicPartitions) =>
        LET B == PresentPrimary("BootCritical")
            N == PresentPrimary("Normal")
        IN  /\ Len(tasks_) = Len(B) + 1 + Len(N)
            /\ \A i \in 1..Len(B) : FlashOf(tasks_[i], B[i])
            /\ tasks_[Len(B) + 1] = UpdateSuperTask
            /\ \A i \in 1..Len(N) : FlashOf(tasks_[Len(B) + 1 + i], N[i])
            /\ (source.files \cap ImageNames = {"boot.img", "system.img"}) =>
                  /\ <<tasks_[1].type, tasks_[2].type, tasks_[3].type>>
                        = <<"Flash", "UpdateSuper", "Flash">>
                  /\ tasks_[1].pname = "boot" /\ tasks_[3].pname = "system"

\* The scenario with a secondary image in the source, which is passed over,
\* and one more boot-critical image.
C7_Witness ==
    /\ Collected /\ CatalogStrategy
    /\ fp.skip_secondary /\ get_slot_count = 0 /\ NoDynamicPartitions
    /\ source.files \cap ImageNames
          = {"boot.img", "system.img", "system_other.img", "vbmeta.img"}
    /\ Len(tasks_) = 4

\* The commands that change the device.
Mutating ==
    {"SetActive", "SnapshotUpdateCommand", "FlashPartition", "Erase",
     "ResizePartition", "Reboot"}

\* C8: when graph construction finds the script malformed, the invocation
\* is aborted and has issued no command that changes the device, before or
\* after.
C8_ConfigErrorAbortsBeforeMutation ==
    "parse error" \in note =>
        /\ dead
        /\ \A j \in 1..Len(cmds) : cmds[j].cmd \notin Mutating

-----------------------------------------------------------------------------
(* Slot functions applied on their own                                     *)

SlotLetter(i) == Alphabet[i + 1]

SlotCountReplies ==
    {NoReply, Reply("x"), Reply("-1")} \cup {Reply(Digits[n + 1]) : n \in 0..MaxSlots}

CurrentSlotReplies ==
    {NoReply, Reply("")}
      \cup {Reply(SlotLetter(i)) : i \in 0..(MaxSlots - 1)}
      \cup {Reply("_" \o SlotLetter(i)) : i \in 0..(MaxSlots - 1)}

SlotNames == {"all", "other", "", "ab", "z"} \cup {SlotLetter(i) : i \in 0..MaxSlots}

SlotInit ==
    /\ fp = DefaultPlan
    /\ source = NoSource
    /\ pc = "probe"
    /\ tasks_ = <<>>
    /\ tasks = <<>>
    /\ run = NoRun
    /\ cmds = <<>>
    /\ dead = FALSE
    /\ note = {}
    /\ target_sparse_limit = WideOf(-1)
    /\ link = NoLink
    /\ next_active = ""
    /\ \/ /\ dev = DefaultDevice
          /\ \E n \in 0..MaxSlots, i \in 0..(MaxSlots - 1) :
                probe = [kind |-> "other", count |-> n, current |-> SlotLetter(i),
                         name |-> "", allow_all |-> FALSE, chain |-> <<>>,
                         out |-> NotCalled]
       \/ /\ \E sc \in SlotCountReplies, cs \in CurrentSlotReplies :
                dev = [DefaultDevice EXCEPT !.slot_count = sc, !.current_slot = cs]
          /\ \E nm \in SlotNames, aa \in BOOLEAN :
                probe = [kind |-> "verify", count |-> 0, current |-> "",
                         name |-> nm, allow_all |-> aa, chain |-> <<>>,
                         out |-> NotCalled]

\* get_other_slot(c, N), applied to the slot the previous application gave.
ApplyGetOtherSlot ==
    /\ probe.kind = "other"
    /\ Len(probe.chain) < MaxApply
    /\ LET from == IF probe.chain = <<>> THEN probe.current
                   ELSE probe.chain[Len(probe.chain)]
       IN  probe' = [probe EXCEPT
                        !.chain = Append(@, get_other_slot(from, probe.count))]
    /\ UNCHANGED <<fp, source, dev, pc, tasks_, tasks, run, cmds, dead, note, next_active,
                   target_sparse_limit, link>>

\* verify_slot(name, allow_all) against the device.
ApplyVerifySlot ==
    /\ probe.kind = "verify"
    /\ probe.out = NotCalled
    /\ probe' = [probe EXCEPT !.out = verify_slot(probe.name, probe.allow_all)]
    /\ dead' = (verify_slot(probe.name, probe.allow_all).term # "return")
    /\ UNCHANGED <<fp, source, dev, pc, tasks_, tasks, run, cmds, note, next_active,
                   target_sparse_limit, link>>

SlotNext == ApplyGetOtherSlot \/ ApplyVerifySlot

SlotSpec == SlotInit /\ [][SlotNext]_vars

\* The position of a slot letter: 0 for "a".
SlotIndex(s) == CHOOSE i \in 0..25 : Alphabet[i + 1] = s

\* The probe applies get_other_slot within the claim's domain: N >= 2 and the
\* current slot among the first N letters.
InOtherSlotDomain ==
    /\ probe.kind = "other"
    /\ probe.count >= 2
    /\ SlotIndex(probe.current) < probe.count

\* C9: for N >= 2 and c among the first N letters, get_other_slot(c, N) is
\* the cyclic successor of c (one letter forward, the last slot wrapping to
\* "a"), also when applied to its own result; applying it twice gives c back
\* if and only if N = 2.
C9_OtherSlotIsCyclicSuccessor ==
    InOtherSlotDomain =>
        /\ \A k \in 1..Len(probe.chain) :
              LET before == IF k = 1 THEN probe.current ELSE probe.chain[k - 1]
              IN  /\ probe.chain[k] \in {SlotLetter(i) : i \in 0..(probe.count - 1)}
                  /\ SlotIndex(probe.chain[k]) =
                        (IF SlotIndex(before) = probe.count - 1 THEN 0
                         ELSE SlotIndex(before) + 1)
        /\ Len(probe.chain) >= 2 =>
              ((probe.chain[2] = probe.current) <=> (probe.count = 2))

\* Witness of C9: with three slots, from the last slot, two applications have
\* wrapped to "a" and gone on to "b", not back to "c".
C9_Witness ==
    /\ InOtherSlotDomain
    /\ probe.count = 3
    /\ probe.current = "c"
    /\ probe.chain = <<"a", "b">>

\* The device has at least one slot: slot-count is a positive number.
DeviceHasSlots ==
    /\ dev.slot_count.ok
    /\ dev.slot_count.val \in {Digits[n + 1] : n \in 1..9}

\* C10: verify_slot("all", true) returns "all" on every device;
\* verify_slot("all", false) returns "a" on a device with at least one slot
\* and terminates the process on a device that reports none.
C10_VerifySlotAll ==
    (probe.kind = "verify" /\ probe.name = "all" /\ probe.out # NotCalled) =>
        IF probe.allow_all THEN probe.out = Returns("all") /\ ~dead
        ELSE IF DeviceHasSlots THEN probe.out = Returns("a") /\ ~dead
        ELSE probe.out.term \in {"die", "exit"} /\ dead

\* Witness of C10: "all" without allow_all has collapsed to "a" on a device
\* with slots.
C10_Witness ==
    /\ probe.kind = "verify"
    /\ probe.name = "all"
    /\ ~probe.allow_all
    /\ DeviceHasSlots
    /\ probe.out = Returns("a")

\* The number of slots the device reports: slot-count when it is a number.
ReportedSlots ==
    IF dev.slot_count.ok /\ DecimalValue(dev.slot_count.val) >= 0
    THEN DecimalValue(dev.slot_count.val) ELSE 0

IsSlotLetter(name) == \E i \in 0..(ReportedSlots - 1) : name = SlotLetter(i)

\* C11: for a slot name that is not "all", not "other" and not a letter below
\* the slot count, verify_slot ends the process, returns nothing, issues no
\* device command and leaves the FlashingPlan alone; a letter it returns for
\* a letter argument is among the first slot-count letters.
C11_VerifySlotRejects ==
    (probe.kind = "verify" /\ probe.out # NotCalled) =>
        /\ (probe.name \notin {"all", "other"} /\ ~IsSlotLetter(probe.name)) =>
              /\ probe.out.term \in {"die", "exit"}
              /\ probe.out.ret = ""
              /\ dead
              /\ cmds = <<>>
              /\ fp = DefaultPlan
        /\ (Len(probe.name) = 1 /\ probe.out.term = "return") =>
              /\ probe.out.ret = probe.name
              /\ IsSlotLetter(probe.out.ret)

\* Witness of C11: slot "c" asked of a device with two slots.
C11_Witness ==
    /\ probe.kind = "verify"
    /\ probe.name = "c"
    /\ dev.slot_count = Reply("2")
    /\ probe.out.term = "exit"
    /\ dead

-----------------------------------------------------------------------------
(* do_for_partitions applied on its own                                    *)

PartitionArgs == {"boot", "vendor_boot:default", "userdata"}

PartitionInit ==
    /\ fp = DefaultPlan
    /\ source = NoSource
    /\ pc = "probe"
    /\ tasks_ = <<>>
    /\ tasks = <<>>
    /\ run = NoRun
    /\ cmds = <<>>
    /\ dead = FALSE
    /\ note = {}
    /\ target_sparse_limit = WideOf(-1)
    /\ link = NoLink
    /\ next_active = ""
    /\ \E answers \in BOOLEAN, slotted \in {{}, {"boot", "vendor_boot"}},
          count \in {NoReply} \cup {Reply(Digits[n + 1]) : n \in 0..MaxSlots},
          current \in {NoReply, Reply(""), Reply("a"), Reply("_b")} :
          dev = [DefaultDevice EXCEPT !.has_slot_ok = answers, !.has_slot = slotted,
                                     !.slot_count = count, !.current_slot = current]
    /\ \E part \in PartitionArgs, slot \in {"", "a", "b", "all"}, force \in BOOLEAN :
          probe = [kind |-> "partitions", part |-> part, slot |-> slot,
                   force_slot |-> force, out |-> NotCalled]

\* do_for_partitions(part, slot, fn, force_slot), fn recording its argument.
ApplyDoForPartitions ==
    /\ probe.kind = "partitions"
    /\ probe.out = NotCalled
    /\ probe' = [probe EXCEPT
                    !.out = do_for_partitions(probe.part, probe.slot, probe.force_slot)]
    /\ dead' = (probe'.out.term # "return")
    /\ note' = IF /\ ~dead'
                  /\ SlotWarning(probe.part,
                                 IF probe.slot = "all" THEN "" ELSE probe.slot,
                                 probe.force_slot)
               THEN note \cup {"slot warning"} ELSE note
    /\ UNCHANGED <<fp, source, dev, pc, tasks_, tasks, run, cmds, next_active,
                   target_sparse_limit, link>>

PartitionNext == ApplyDoForPartitions

PartitionSpec == PartitionInit /\ [][PartitionNext]_vars

\* The partition argument with the slot appended to its first token.
Suffixed(part, slot) ==
    IF part = "vendor_boot:default" THEN "vendor_boot_" \o slot \o ":default"
    ELSE part \o "_" \o slot

\* The device says the base partition is slot-suffixed.
Slotted ==
    /\ dev.has_slot_ok
    /\ (IF probe.part = "vendor_boot:default" THEN "vendor_boot" ELSE probe.part)
          \in dev.has_slot

PartitionsCalled == probe.kind = "partitions" /\ probe.out # NotCalled

\* What fn is to be called with: once per slot letter for "all" on a
\* slot-suffixed partition, once otherwise.
ExpectedNames ==
    IF probe.slot = "all" /\ Slotted
    THEN [i \in 1..ReportedSlots |-> Suffixed(probe.part, SlotLetter(i - 1))]
    ELSE IF Slotted
         THEN <<Suffixed(probe.part,
                         IF probe.slot = "" THEN get_current_slot ELSE probe.slot)>>
         ELSE <<probe.part>>

\* The device cannot tell what the call needs: has-slot is not answered for
\* slot "all", or no current slot is known for an empty slot.
CannotResolve ==
    \/ probe.slot = "all" /\ ~dev.has_slot_ok
    \/ probe.slot = "" /\ Slotted /\ get_current_slot = ""

\* C12 (as claimed): fn is invoked slot-count times for "all" on a
\* slot-suffixed partition, and exactly once in every other case, with the
\* slot appended to the first token only.
C12_PartitionNames ==
    PartitionsCalled =>
        probe.out = [term |-> "return", names |-> ExpectedNames]

\* C12 (amended): as claimed whenever the device can tell what the call needs;
\* when has-slot is not answered for slot "all", or the slot is empty and no
\* current slot is known for a slot-suffixed partition, the process
\* terminates and fn is not invoked.
C12_PartitionNamesWhenResolvable ==
    PartitionsCalled =>
        IF CannotResolve
        THEN probe.out = [term |-> "die", names |-> <<>>] /\ dead
        ELSE probe.out = [term |-> "return", names |-> ExpectedNames] /\ ~dead

\* Witness of C12: every slot of vendor_boot:default on a device with three.
C12_Witness ==
    /\ PartitionsCalled
    /\ probe.out.names = <<"vendor_boot_a:default", "vendor_boot_b:default",
                           "vendor_boot_c:default">>

\* The partition has no slots: the device says so, or does not answer
\* has-slot when one slot is asked for (which do_for_partition takes as no).
HasNoSlots ==
    \/ dev.has_slot_ok /\ ~Slotted
    \/ ~dev.has_slot_ok /\ probe.slot # "all"

------------------------------------------------------------------------------
(* Sparse images and the download limit                                    *)
(*                                                                         *)
(* A sparse file is a sequence of runs: a raw run carries its bytes, a     *)
(* hole stands for len zero bytes and costs nothing to encode.             *)

RawRun(data) == [raw |-> TRUE, len |-> Len(data), data |-> data]

Hole(len) == [raw |-> FALSE, len |-> len, data |-> <<>>]

Zeros(n) == [i \in 1..n |-> 0]

RECURSIVE Decoded(_)
Decoded(runs) ==
    IF runs = <<>> THEN <<>>
    ELSE (IF Head(runs).raw THEN Head(runs).data ELSE Zeros(Head(runs).len))
         \o Decoded(Tail(runs))

RECURSIVE EncodedSize(_)
EncodedSize(runs) ==
    IF runs = <<>> THEN 0
    ELSE (IF Head(runs).raw THEN Head(runs).len ELSE 0)
         + EncodedSize(Tail(runs))

\* the runs of s dealt out, in order, to files of at most max_len encoded
\* bytes each; a raw run that does not fit is cut at the file boundary
RECURSIVE Pack(_, _, _, _)
Pack(runs, max_len, cur, done) ==
    IF runs = <<>> THEN Append(done, cur)
    ELSE IF ~Head(runs).raw
              \/ EncodedSize(cur) + Head(runs).len <= max_len
         THEN Pack(Tail(runs), max_len, Append(cur, Head(runs)), done)
    ELSE IF EncodedSize(cur) = max_len
         THEN Pack(runs, max_len, <<>>, Append(done, cur))
    ELSE Pack(<<RawRun(SubSeq(Head(runs).data,
                              max_len - EncodedSize(cur) + 1,
                              Head(runs).len))>> \o Tail(runs),
              max_len, <<>>,
              Append(done,
                     Append(cur, RawRun(SubSeq(Head(runs).data, 1,
                                               max_len - EncodedSize(cur))))))

\* sparse_file_resparse(s, max_len, out_s, out_s_len): the number of files,
\* and the first out_s_len of them (none in the sizing pass)
sparse_file_resparse(s, max_len, out_s_len) ==
    [rv  |-> Len(Pack(s, max_len, <<>>, <<>>)),
     out |-> SubSeq(Pack(s, max_len, <<>>, <<>>), 1, out_s_len)]

\* an accepted max_size as the unsigned int handed to sparse_file_resparse;
\* the images here are far shorter than 2^30 bytes, so any larger length
\* cuts them the same way
AsLength(max_size) ==
    IF max_size.a = 0 /\ max_size.b < 64
    THEN max_size.b * Limb + max_size.c
    ELSE 64 * Limb

NoFiles == [term |-> "die", files |-> 0, chunks |-> <<>>]

Materialize_one_short(files, second) ==
    IF second.rv < 0 THEN NoFiles
    ELSE [term   |-> "return",
          files  |-> files,
          chunks |-> [i \in 1..(files - 1) |-> second.out[i]]]

\* the second pass of resparse_file and its result vector
Materialize(files, second) ==
    IF second.rv < 0 THEN NoFiles
    ELSE [term   |-> "return",
          files  |-> files,
          chunks |-> [i \in 1..files |-> second.out[i]]]

Resparse(s, max_len, files) ==
    IF files < 0 THEN NoFiles
    ELSE Materialize(files, sparse_file_resparse(s, max_len, files))

resparse_file_no_upper_bound(s, max_size) ==
    IF WLeq(max_size, WideOf(0)) THEN NoFiles
    ELSE Resparse(s, AsLength(max_size),
                  sparse_file_resparse(s, AsLength(max_size), 0).rv)

resparse_file(s, max_size) ==
    IF WLeq(max_size, WideOf(0)) \/ WLess(UINT32_MAX, max_size) THEN NoFiles
    ELSE Resparse(s, AsLength(max_size),
                  sparse_file_resparse(s, AsLength(max_size), 0).rv)

\* get_sparse_limit(size, fp) with the cached target_sparse_limit `target':
\* the result, the new cache, and how often max-download-size was asked
Limit(term, ret, target, asked) ==
    [term |-> term, ret |-> ret, target |-> target, asked |-> asked]

Fit(size, limit, target, asked) ==
    IF WLess(limit, size)
    THEN Limit("return", WMin(limit, RESPARSE_LIMIT), target, asked)
    ELSE Limit("return", WideOf(0), target, asked)

TargetLimit(size, target, asked) ==
    IF WLess(WideOf(0), target) THEN Fit(size, target, target, asked)
    ELSE Limit("return", WideOf(0), target, asked)

get_sparse_limit(size, plan, capturer, target, device) ==
    IF ToInt64(plan.sparse_limit) = WideOf(0)
    THEN IF capturer THEN Limit("die", WideOf(0), target, 0)
         ELSE IF target = WideOf(-1)
              THEN TargetLimit(size,
                               ToInt64(get_uint_var(device.max_download)), 1)
              ELSE TargetLimit(size, target, 0)
    ELSE Fit(size, ToInt64(plan.sparse_limit), target, 0)

is_userspace_fastboot(device) ==
    device.is_userspace.ok /\ device.is_userspace.val = "yes"

\* the images resparse_file is given: up to MaxRuns runs
RunPool ==
    {Hole(1), Hole(2), RawRun(<<1>>), RawRun(<<1, 2>>), RawRun(<<2, 1, 2>>)}

RECURSIVE SparseImages(_)
SparseImages(n) ==
    IF n = 0 THEN {<<>>}
    ELSE SparseImages(n - 1)
         \cup {Append(s, r) : s \in {t \in SparseImages(n - 1) : Len(t) = n - 1},
                              r \in RunPool}

\* max_size arguments: a few bytes, and the values around the range check
MaxSizes ==
    {WideOf(n) : n \in 1..(MaxRuns + 1)}
        \cup {WideOf(-1), WideOf(0), UINT32_MAX, Wide(0, 256, 0),
              Wide(32767, Limb - 1, Limb - 1), Wide(-32768, 0, 0)}

\* image sizes handed to get_sparse_limit
ImageSizes ==
    {WideOf(0), WideOf(1), WideOf(4096), WideOf(4097), Wide(0, 64, 0),
     Wide(0, 64, 1), Wide(0, 256, 0)}

\* -S arguments (none is sparse_limit 0)
ExplicitLimits ==
    {"0", "1", "4096", "1073741824", "1073741825", "9223372036854775808",
     "18446744073709551615"}

MaxDownloadReplies ==
    {NoReply, Reply(""), Reply("x"), Reply("18446744073709551616"),
     Reply(" 4096 ")}
        \cup {Reply(t) : t \in {"0", "4096", "0x1000", "1073741824",
                                "1073741825", "4294967295", "4294967296",
                                "9223372036854775807", "9223372036854775808",
                                "18446744073709551615"}}

SparseInit ==
    /\ \/ /\ fp = DefaultPlan
          /\ dev = DefaultDevice
          /\ \E s \in SparseImages(MaxRuns), max_size \in MaxSizes :
                 probe = [kind |-> "resparse", s |-> s,
                          max_size |-> max_size, out |-> NotCalled]
       \/ /\ \E limit \in ExplicitLimits :
                 fp = [DefaultPlan EXCEPT !.sparse_limit = UintText[limit]]
          /\ \E reply \in MaxDownloadReplies,
                us \in {NoReply, Reply("yes"), Reply("no")} :
                 dev = [DefaultDevice EXCEPT !.max_download = reply,
                                             !.is_userspace = us]
          /\ \E size \in ImageSizes, capturer \in BOOLEAN :
                 /\ capturer => fp.sparse_limit # WideOf(0)
                 /\ probe = [kind |-> "limit", size |-> size,
                             capturer |-> capturer, out |-> NotCalled]
    /\ source = NoSource
    /\ pc = "sparse"
    /\ tasks_ = <<>>
    /\ tasks = <<>>
    /\ run = NoRun
    /\ cmds = <<>>
    /\ dead = FALSE
    /\ note = {}
    /\ next_active = ""
    /\ target_sparse_limit = WideOf(-1)
    /\ link = NoLink

\* resparse_file applied to an image
ApplyResparseFile ==
    /\ pc = "sparse"
    /\ ~dead
    /\ probe.kind = "resparse"
    /\ probe.out = NotCalled
    /\ probe' = [probe EXCEPT !.out = resparse_file(probe.s, probe.max_size)]
    /\ dead' = (probe'.out.term = "die")
    /\ UNCHANGED <<fp, source, dev, pc, tasks_, tasks, run, cmds, note,
                   next_active, target_sparse_limit, link>>

\* one more call of get_sparse_limit on the current connection
ApplyGetSparseLimit ==
    /\ pc = "sparse"
    /\ ~dead
    /\ probe.kind = "limit"
    /\ link.calls < MaxCalls
    /\ probe' = [probe EXCEPT !.out =
                     get_sparse_limit(probe.size, fp, probe.capturer,
                                      target_sparse_limit, dev)]
    /\ target_sparse_limit' = probe'.out.target
    /\ link' = [link EXCEPT !.asked = @ + probe'.out.asked,
                            !.calls = @ + 1]
    /\ dead' = (probe'.out.term = "die")
    /\ UNCHANGED <<fp, source, dev, pc, tasks_, tasks, run, cmds, note,
                   next_active>>

\* reboot_to_userspace_fastboot: a new connection, and the cache forgotten
ApplyRebootToUserspace ==
    /\ pc = "sparse"
    /\ ~dead
    /\ probe.kind = "limit"
    /\ ~probe.capturer
    /\ link.conn <= MaxReboots
    /\ cmds' = Append(cmds, [cmd |-> "RebootTo", arg |-> "fastboot",
                             status |-> 0])
    /\ dead' = ~is_userspace_fastboot(dev)
    /\ link' = [conn |-> link.conn + 1, asked |-> 0, calls |-> 0]
    /\ target_sparse_limit' =
           IF dead' THEN target_sparse_limit ELSE WideOf(-1)
    /\ UNCHANGED <<fp, source, dev, pc, tasks_, tasks, run, note, probe,
                   next_active>>

SparseNext ==
    \/ ApplyResparseFile
    \/ ApplyGetSparseLimit
    \/ ApplyRebootToUserspace

SparseSpec == SparseInit /\ [][SparseNext]_vars

Resparsed ==
    /\ pc = "sparse"
    /\ probe.kind = "resparse"
    /\ probe.out # NotCalled
    /\ probe.out.term = "return"

RECURSIVE DecodedAll(_)
DecodedAll(chunks) ==
    IF chunks = <<>> THEN <<>>
    ELSE Decoded(Head(chunks)) \o DecodedAll(Tail(chunks))

RECURSIVE DecodedLengths(_)
DecodedLengths(chunks) ==
    IF chunks = <<>> THEN 0
    ELSE Len(Decoded(Head(chunks))) + DecodedLengths(Tail(chunks))

(* C14: for a sparse image of decoded length L and a limit M in            *)
(* [1, 2^32 - 1], resparse_file returns exactly as many chunks as the      *)
(* sizing pass reported, their decoded lengths sum to L, each chunk's      *)
(* encoded size is at most M, and the decoded chunks concatenated in       *)
(* order are the decoded image.                                            *)
C14_ResparseCovers ==
    Resparsed =>
        /\ Len(probe.out.chunks) =
               sparse_file_resparse(probe.s, AsLength(probe.max_size), 0).rv
        /\ DecodedLengths(probe.out.chunks) = Len(Decoded(probe.s))
        /\ \A i \in 1..Len(probe.out.chunks) :
               EncodedSize(probe.out.chunks[i]) <= AsLength(probe.max_size)
        /\ DecodedAll(probe.out.chunks) = Decoded(probe.s)

\* an image with a hole whose three raw bytes are cut into several chunks
C14_Witness ==
    /\ Resparsed
    /\ Len(probe.out.chunks) >= 2
    /\ \E i \in 1..Len(probe.s) : ~probe.s[i].raw
    /\ \E i \in 1..Len(probe.s) : probe.s[i].len > AsLength(probe.max_size)

\* max_size lies in [1, 2^32 - 1]
WithinUint32(max_size) ==
    /\ max_size.a = 0
    /\ max_size.b <= 255
    /\ max_size.b > 0 \/ max_size.c >= 1

(* C15: resparse_file terminates the invocation, producing no chunks, for  *)
(* every max_size <= 0 and every max_size above 2^32 - 1, and passes the   *)
(* size check for every max_size in [1, 2^32 - 1].                         *)
C15_MaxSizeRange ==
    (pc = "sparse" /\ probe.kind = "resparse" /\ probe.out # NotCalled) =>
        IF WithinUint32(probe.max_size)
        THEN probe.out.term = "return" /\ ~dead
        ELSE probe.out.term = "die" /\ probe.out.chunks = <<>> /\ dead

\* the first value above the bound is refused
C15_Witness ==
    /\ pc = "sparse"
    /\ probe.kind = "resparse"
    /\ probe.out # NotCalled
    /\ probe.max_size = Wide(0, 256, 0)
    /\ probe.out.term = "die"

LimitCalled ==
    /\ pc = "sparse"
    /\ probe.kind = "limit"
    /\ probe.out # NotCalled
    /\ probe.out.term = "return"

\* the limit in force, as the number the user or the device gave
LimitInForce ==
    IF fp.sparse_limit # WideOf(0) THEN fp.sparse_limit
    ELSE get_uint_var(dev.max_download)

(* C16: get_sparse_limit uses the plan's explicit limit when one is set    *)
(* and the device's max-download-size otherwise; it returns 0 when the     *)
(* image size does not exceed that limit or the device reports no limit,   *)
(* and otherwise the limit capped at 1 GiB; the result is always 0 or a    *)
(* value in [1, 1 GiB].                                                    *)
C16_SparseLimit ==
    LimitCalled =>
        /\ probe.out.ret =
               IF WLeq(probe.size, LimitInForce) THEN WideOf(0)
               ELSE WMin(LimitInForce, RESPARSE_LIMIT)
        /\ \/ probe.out.ret = WideOf(0)
           \/ WLeq(WideOf(1), probe.out.ret)
                  /\ WLeq(probe.out.ret, RESPARSE_LIMIT)

(* C17: with no explicit sparse limit, max-download-size is queried at     *)
(* most once per connection however often get_sparse_limit is called and   *)
(* whatever the device reports, and the first call on a connection, the    *)
(* one after reboot_to_userspace_fastboot included, does query it.         *)
C17_QueriedOncePerConnection ==
    (pc = "sparse" /\ probe.kind = "limit" /\ fp.sparse_limit = WideOf(0)) =>
        /\ link.asked <= 1
        /\ (link.calls >= 1 /\ ~dead) => link.asked >= 1

------------------------------------------------------------------------------
(* Transfer buffers: the AVB footer and the vbmeta flags                   *)
(*                                                                         *)
(* A file is its bytes (data), its offset (pos) and a number telling the   *)
(* image file (0) from the temporary files made later.  The byte at C      *)
(* offset k is data[k + 1].                                                *)

AVB_FOOTER_SIZE == 64

AVB_FOOTER_MAGIC == <<65, 86, 66, 102>>     \* "AVBf"

AVB_MAGIC == <<65, 86, 66, 48>>             \* "AVB0"

Bytes(n, v) == [i \in 1..n |-> v]

\* the AvbVBMetaImageHeader: the magic, and the flags word at 120..123
Vbmeta(flag) == AVB_MAGIC \o Bytes(119, 0) \o <<flag>> \o Bytes(132, 0)

\* the AvbFooter: magic, versions, original size, vbmeta_offset (big
\* endian, at 20..27), vbmeta_size, reserved
AvbFooter(vbmeta_offset) ==
    AVB_FOOTER_MAGIC \o Bytes(16, 0)
        \o Bytes(6, 0) \o <<vbmeta_offset \div 256, vbmeta_offset % 256>>
        \o Bytes(36, 0)

\* be64toh of eight bytes; an offset of 2^24 or more lies beyond every
\* file here and is kept as 2^30
be64toh(b) ==
    IF \E i \in 1..5 : b[i] # 0 THEN 64 * Limb
    ELSE b[6] * 65536 + b[7] * 256 + b[8]

\* data.compare(pos, len, str) == 0, or the std::out_of_range it throws
Compare(data, pos, str) ==
    IF pos > Len(data) THEN "throws"
    ELSE IF SubSeq(data, pos + 1,
                   IF pos + Len(str) < Len(data) THEN pos + Len(str)
                   ELSE Len(data)) = str
         THEN "equal"
    ELSE "differs"

ReadFdToString(fd) == SubSeq(fd.data, fd.pos + 1, Len(fd.data))

\* the bytes of a file after str is written at offset off (lseek, then
\* WriteStringToFd); a gap before off reads as zeros
WriteAt(content, off, str) ==
    [i \in 1..(IF off + Len(str) > Len(content) THEN off + Len(str)
               ELSE Len(content)) |->
        IF i > off /\ i <= off + Len(str) THEN str[i - off]
        ELSE IF i <= Len(content) THEN content[i]
        ELSE 0]

\* data[flags_offset] |= mask, mask a single bit
SetBit(data, flags_offset, mask) ==
    [data EXCEPT ![flags_offset + 1] =
        IF (@ \div mask) % 2 = 1 THEN @ ELSE @ + mask]

Outcome(term, buf) == [term |-> term, buf |-> buf]

\* buf->fd = std::move(fd); lseek(buf->fd.get(), 0, SEEK_SET)
NewFd(buf, data) ==
    [buf EXCEPT !.fd = [id |-> buf.fd.id + 1, data |-> data, pos |-> 0]]

fb_fix_numeric_var(var) ==
    IF var \in {"0x0", "0x100", "0x140", "0x154", "0x180", "0x200",
                "0x8000000000000000"}
    THEN var
    ELSE "0x" \o var

get_partition_size(partition) ==
    IF ~dev.partition_size.ok
    THEN IF ~is_logical(partition) THEN Returns(WideOf(0)) ELSE Dies
    ELSE IF ~ParseUint64(fb_fix_numeric_var(dev.partition_size.val)).ok
         THEN IF ~is_logical(partition) THEN Returns(WideOf(0)) ELSE Dies
    ELSE Returns(ParseUint64(fb_fix_numeric_var(dev.partition_size.val)).val)

\* copy_avb_footer once the footer is known to lie at footer_offset
MoveFooter(buf, data, footer_offset, partition_size) ==
    Outcome("return",
            [NewFd(buf, WriteAt(data, partition_size - AVB_FOOTER_SIZE,
                                SubSeq(data, footer_offset + 1, Len(data))))
                EXCEPT !.sz = partition_size])

\* copy_avb_footer from the read of the file on
CopyFooter_at_image_end(buf, data, partition_size) ==
    CASE Compare(data, buf.sz - AVB_FOOTER_SIZE, AVB_FOOTER_MAGIC) = "throws"
             -> Outcome("abort", buf)
      [] Compare(data, buf.sz - AVB_FOOTER_SIZE, AVB_FOOTER_MAGIC) = "differs"
             -> Outcome("return", [buf EXCEPT !.fd.pos = 0])
      [] OTHER
             -> MoveFooter(buf, data, buf.sz - AVB_FOOTER_SIZE, buf.sz)

CopyFooter(buf, data, partition_size) ==
    CASE Compare(data, buf.sz - AVB_FOOTER_SIZE, AVB_FOOTER_MAGIC) = "throws"
             -> Outcome("abort", buf)
      [] Compare(data, buf.sz - AVB_FOOTER_SIZE, AVB_FOOTER_MAGIC) = "differs"
             -> Outcome("return", [buf EXCEPT !.fd.pos = 0])
      [] OTHER
             -> MoveFooter(buf, data, buf.sz - AVB_FOOTER_SIZE,
                           partition_size)

\* copy_avb_footer from the comparison of the sizes on; partition_size is
\* the int64_t the reported size was cast to
Relocate(buf, partition_size) ==
    IF partition_size = WideOf(buf.sz) THEN Outcome("return", buf)
    ELSE IF WLess(partition_size, WideOf(buf.sz)) THEN Outcome("return", buf)
    ELSE CopyFooter(buf, ReadFdToString(buf.fd), AsLength(partition_size))

copy_avb_footer_also_sparse(partition, buf, in_userspace) ==
    IF buf.sz < AVB_FOOTER_SIZE \/ is_logical(partition) \/ in_userspace
    THEN Outcome("return", buf)
    ELSE IF get_partition_size(partition).term # "return"
         THEN Outcome("die", buf)
    ELSE Relocate(buf, ToInt64(get_partition_size(partition).ret))

copy_avb_footer(partition, buf, in_userspace) ==
    IF buf.sz < AVB_FOOTER_SIZE \/ is_logical(partition) \/ in_userspace
    THEN Outcome("return", buf)
    ELSE IF buf.file_type = "FB_BUFFER_SPARSE" THEN Outcome("return", buf)
    ELSE IF get_partition_size(partition).term # "return"
         THEN Outcome("die", buf)
    ELSE Relocate(buf, ToInt64(get_partition_size(partition).ret))

\* rewrite_vbmeta_buffer once the magic is found at vbmeta_offset: the
\* outcomes, more than one where data[flags_offset] lies outside the string
SetFlags_verity_only(buf, data, flags_offset, verity, verification) ==
    IF flags_offset >= Len(data)
    THEN {Outcome("abort", buf), Outcome("return", NewFd(buf, data))}
    ELSE {Outcome("return",
                  NewFd(buf, IF verity THEN SetBit(data, flags_offset, 1)
                             ELSE data))}

SetFlags(buf, data, flags_offset, verity, verification) ==
    IF flags_offset >= Len(data)
    THEN {Outcome("abort", buf), Outcome("return", NewFd(buf, data))}
    ELSE {Outcome("return",
                  NewFd(buf,
                        IF verity /\ verification
                        THEN SetBit(SetBit(data, flags_offset, 1),
                                    flags_offset, 2)
                        ELSE IF verity THEN SetBit(data, flags_offset, 1)
                        ELSE IF verification THEN SetBit(data, flags_offset, 2)
                        ELSE data))}

\* rewrite_vbmeta_buffer from the check of AVB_MAGIC on
RewriteAt(buf, data, vbmeta_offset, verity, verification) ==
    CASE Compare(data, vbmeta_offset, AVB_MAGIC) = "throws"
             -> {Outcome("abort", buf)}
      [] Compare(data, vbmeta_offset, AVB_MAGIC) = "differs"
             -> {Outcome("die", buf)}
      [] OTHER
             -> SetFlags(buf, data, 123 + vbmeta_offset, verity, verification)

\* rewrite_vbmeta_buffer of a boot image: the footer names the offset
RewriteInBoot(buf, data, footer_offset, verity, verification) ==
    CASE Compare(data, footer_offset, AVB_FOOTER_MAGIC) = "throws"
             -> {Outcome("abort", buf)}
      [] Compare(data, footer_offset, AVB_FOOTER_MAGIC) = "differs"
             -> {Outcome("die", buf)}
      [] OTHER
             -> RewriteAt(buf, data,
                          be64toh(SubSeq(data, footer_offset + 21,
                                         footer_offset + 28)),
                          verity, verification)

rewrite_vbmeta_buffer(buf, vbmeta_in_boot, verity, verification) ==
    IF buf.sz < 256 THEN {Outcome("return", buf)}
    ELSE IF vbmeta_in_boot
         THEN RewriteInBoot(buf, ReadFdToString(buf.fd),
                            buf.sz - AVB_FOOTER_SIZE, verity, verification)
    ELSE RewriteAt(buf, ReadFdToString(buf.fd), 0, verity, verification)

\* image files: vbmeta images, boot images with a footer, plain data
VbmetaImages ==
    {Vbmeta(0), Vbmeta(1), Vbmeta(4), SubSeq(Vbmeta(0), 1, 255)}

BootImages ==
    {Vbmeta(0) \o AvbFooter(0),
     Bytes(8, 7) \o Vbmeta(2) \o AvbFooter(8),
     Bytes(256, 7) \o AvbFooter(0),
     Bytes(256, 7) \o AVB_MAGIC \o AvbFooter(256)}

PlainImages == {Bytes(10, 7), Bytes(320, 7)}

\* the buffer load_buf_fd makes of an image file: one sent whole has its
\* size in sz; for one that was resparsed sz is never assigned and the file
\* has been read by the sparse codec
Buffers(data, file_type) ==
    {[type |-> "FB_BUFFER_FD", file_type |-> file_type, sz |-> Len(data),
      fd |-> [id |-> 0, data |-> data, pos |-> 0]]}
        \cup {[type |-> "FB_BUFFER_SPARSE", file_type |-> file_type,
               sz |-> sz, fd |-> [id |-> 0, data |-> data, pos |-> pos]] :
                  sz \in {0, Len(data), Len(data) + 4096},
                  pos \in {0, Len(data)}}

FileTypes == {"FB_BUFFER_FD", "FB_BUFFER_SPARSE"}

PartitionSizeReplies ==
    {NoReply, Reply("x"), Reply("0"), Reply("200")}
        \cup {Reply(t) : t \in {"0x100", "0x140", "0x154", "0x180", "0x200",
                                "0x8000000000000000"}}

BufferInit ==
    /\ fp = DefaultPlan
    /\ pc = "buffer"
    /\ tasks_ = <<>>
    /\ tasks = <<>>
    /\ run = NoRun
    /\ cmds = <<>>
    /\ dead = FALSE
    /\ note = {}
    /\ next_active = ""
    /\ target_sparse_limit = WideOf(-1)
    /\ link = NoLink
    /\ \/ /\ \E logical \in {{}, {"boot"}}, reply \in PartitionSizeReplies :
                 dev = [DefaultDevice EXCEPT !.logical = logical,
                                             !.partition_size = reply]
          /\ \E se \in {"absent", "valid", "unparsable"},
                dynamic \in {{}, {"boot"}} :
                 /\ (se # "valid") => dynamic = {}
                 /\ source = [NoSource EXCEPT !.super_empty = se,
                                              !.dynamic = dynamic]
          /\ \E data \in BootImages \cup PlainImages, ft \in FileTypes :
                 \E buf \in Buffers(data, ft) :
                     probe = [kind |-> "footer", partition |-> "boot",
                              first |-> buf, buf |-> buf, applied |-> 0,
                              term |-> "none"]
       \/ /\ dev = DefaultDevice
          /\ source = NoSource
          /\ \E data \in VbmetaImages \cup BootImages, in_boot \in BOOLEAN,
                verity \in BOOLEAN, verification \in BOOLEAN :
                 \E buf \in Buffers(data, "FB_BUFFER_FD") :
                     probe = [kind |-> "vbmeta", vbmeta_in_boot |-> in_boot,
                              verity |-> verity,
                              verification |-> verification,
                              first |-> buf, once |-> buf, buf |-> buf,
                              applied |-> 0, term |-> "none"]

\* should_flash_in_userspace as copy_avb_footer calls it: with a
\* super_empty.img that does not parse the metadata pointer is null and
\* the call may end the process or answer either way
InUserspace(partition) ==
    IF source.super_empty = "unparsable" THEN {"abort", "yes", "no"}
    ELSE IF should_flash_in_userspace(partition) THEN {"yes"}
    ELSE {"no"}

ApplyCopyAvbFooter ==
    /\ pc = "buffer"
    /\ ~dead
    /\ probe.kind = "footer"
    /\ probe.applied = 0
    /\ \E in_userspace \in
           (IF probe.buf.sz < AVB_FOOTER_SIZE \/ is_logical(probe.partition)
            THEN {"no"} ELSE InUserspace(probe.partition)) :
           IF in_userspace = "abort"
           THEN probe' = [probe EXCEPT !.applied = 1, !.term = "abort"]
           ELSE probe' = [probe EXCEPT
                    !.applied = 1,
                    !.term = copy_avb_footer(probe.partition, probe.buf,
                                             in_userspace = "yes").term,
                    !.buf = copy_avb_footer(probe.partition, probe.buf,
                                            in_userspace = "yes").buf]
    /\ dead' = (probe'.term # "return")
    /\ UNCHANGED <<fp, source, dev, pc, tasks_, tasks, run, cmds, note,
                   next_active, target_sparse_limit, link>>

ApplyRewriteVbmeta ==
    /\ pc = "buffer"
    /\ ~dead
    /\ probe.kind = "vbmeta"
    /\ probe.applied < MaxRewrites
    /\ \E out \in rewrite_vbmeta_buffer(probe.buf, probe.vbmeta_in_boot,
                                        probe.verity, probe.verification) :
           probe' = [probe EXCEPT
                        !.applied = @ + 1,
                        !.term = out.term,
                        !.buf = out.buf,
                        !.once = IF probe.applied = 0 THEN out.buf ELSE @]
    /\ dead' = (probe'.term # "return")
    /\ UNCHANGED <<fp, source, dev, pc, tasks_, tasks, run, cmds, note,
                   next_active, target_sparse_limit, link>>

BufferNext ==
    \/ ApplyCopyAvbFooter
    \/ ApplyRewriteVbmeta

BufferSpec == BufferInit /\ [][BufferNext]_vars

FooterCopied ==
    /\ pc = "buffer"
    /\ probe.kind = "footer"
    /\ probe.applied = 1

\* the image ends with the footer magic
EndsWithFooter(data) ==
    /\ Len(data) >= AVB_FOOTER_SIZE
    /\ SubSeq(data, Len(data) - AVB_FOOTER_SIZE + 1,
              Len(data) - AVB_FOOTER_SIZE + 4) = AVB_FOOTER_MAGIC

\* the partition size the device reports, 0 when it reports none
ReportedSize == get_partition_size(probe.partition).ret

(* C18: copy_avb_footer leaves the transfer buffer unchanged, file content *)
(* and size, whenever the image is sparse, the partition is logical, or    *)
(* the partition must be flashed in userspace.                             *)
C18_FooterNoOp ==
    (/\ FooterCopied
     /\ \/ probe.first.file_type = "FB_BUFFER_SPARSE"
        \/ is_logical(probe.partition)
        \/ should_flash_in_userspace(probe.partition)) =>
        /\ probe.buf.fd.data = probe.first.fd.data
        /\ probe.buf.sz = probe.first.sz
        /\ probe.buf = probe.first

\* a sparse image with a footer, for a partition larger than the image
\* that is neither logical nor flashed in userspace
C18_Witness ==
    /\ FooterCopied
    /\ probe.term = "return"
    /\ probe.first.file_type = "FB_BUFFER_SPARSE"
    /\ probe.first.type = "FB_BUFFER_FD"
    /\ ~is_logical(probe.partition)
    /\ ~should_flash_in_userspace(probe.partition)
    /\ EndsWithFooter(probe.first.fd.data)
    /\ ReportedSize = WideOf(512)

\* a raw image for a partition that is neither logical nor flashed in
\* userspace
RawForPhysical ==
    /\ FooterCopied
    /\ probe.first.file_type = "FB_BUFFER_FD"
    /\ ~is_logical(probe.partition)
    /\ ~should_flash_in_userspace(probe.partition)

FirstImage == probe.first.fd.data

\* the buffer holds size bytes: the image up to upto, the image's footer
\* at the end
Relocated(size, upto) ==
    /\ probe.term = "return"
    /\ probe.buf.sz = size
    /\ Len(probe.buf.fd.data) = size
    /\ SubSeq(probe.buf.fd.data, size - AVB_FOOTER_SIZE + 1, size) =
           SubSeq(FirstImage, Len(FirstImage) - AVB_FOOTER_SIZE + 1, Len(FirstImage))
    /\ SubSeq(probe.buf.fd.data, 1, upto) = SubSeq(FirstImage, 1, upto)

Untouched ==
    /\ probe.term = "return"
    /\ probe.buf.fd.data = FirstImage
    /\ probe.buf.sz = probe.first.sz
    /\ probe.buf.fd.pos = 0

VbmetaRewritten ==
    /\ pc = "buffer"
    /\ probe.kind = "vbmeta"
    /\ probe.applied >= 1
    /\ probe.term = "return"

\* where the vbmeta struct of the image lies: at 0, or where the footer of
\* a boot image says
VbmetaOffset ==
    IF probe.vbmeta_in_boot
    THEN be64toh(SubSeq(probe.first.fd.data,
                        Len(probe.first.fd.data) - AVB_FOOTER_SIZE + 21,
                        Len(probe.first.fd.data) - AVB_FOOTER_SIZE + 28))
    ELSE 0

HasBit(byte, mask) == (byte \div mask) % 2 = 1

\* only the byte at C offset flag differs, by the requested bits at most
OnlyFlagsSet(flag) ==
    /\ Len(probe.buf.fd.data) = Len(probe.first.fd.data)
    /\ probe.buf.sz = probe.first.sz
    /\ \A i \in 1..Len(probe.first.fd.data) :
           i # flag + 1 => probe.buf.fd.data[i] = probe.first.fd.data[i]
    /\ flag < Len(probe.buf.fd.data)
    /\ probe.verity => HasBit(probe.buf.fd.data[flag + 1], 1)
    /\ probe.verification => HasBit(probe.buf.fd.data[flag + 1], 2)
    /\ \A mask \in {1, 2, 4, 8, 16, 32, 64, 128} :
           HasBit(probe.first.fd.data[flag + 1], mask)
               => HasBit(probe.buf.fd.data[flag + 1], mask)
    /\ probe.applied = 2 =>
           /\ probe.buf.fd.data = probe.once.fd.data
           /\ probe.buf.sz = probe.once.sz

VbmetaLocated ==
    /\ probe.vbmeta_in_boot => EndsWithFooter(probe.first.fd.data)
    /\ VbmetaOffset + 256 <= Len(probe.first.fd.data)
    /\ SubSeq(probe.first.fd.data, VbmetaOffset + 1, VbmetaOffset + 4)
           = AVB_MAGIC

------------------------------------------------------------------------------
(* Loading and flashing one image: load_buf_fd, do_flash, flash_buf        *)
(*                                                                         *)
(* An image file is its bytes and, when it is in the sparse format, the    *)
(* runs the sparse codec reads from it.                                    *)

RawFile(data) == [format |-> "raw", data |-> data, runs |-> <<>>]

SparseFormatFile(data, runs) ==
    [format |-> "sparse", data |-> data, runs |-> runs]

NoFile == [format |-> "none", data |-> <<>>, runs |-> <<>>]

\* sparse_file_import_auto: the runs of a sparse file, a raw file as one run
sparse_file_import_auto(file) ==
    IF file.format = "sparse" THEN file.runs ELSE <<RawRun(file.data)>>

RECURSIVE sparse_file_len(_)
sparse_file_len(runs) ==
    IF runs = <<>> THEN 0 ELSE Head(runs).len + sparse_file_len(Tail(runs))

Loaded(term, buf, limit) ==
    [term |-> term, buf |-> buf, target |-> limit.target,
     asked |-> limit.asked]

NoBuffer ==
    [type |-> "none", file_type |-> "none", sz |-> 0, image_size |-> 0,
     files |-> <<>>, fd |-> [id |-> 0, data |-> <<>>, pos |-> 0]]

\* the fields load_buf_fd assigns before it asks for the sparse limit
Imported(file) ==
    [NoBuffer EXCEPT
        !.file_type = IF file.format = "sparse" THEN "FB_BUFFER_SPARSE"
                      ELSE "FB_BUFFER_FD",
        !.image_size = IF file.format = "sparse"
                       THEN sparse_file_len(file.runs)
                       ELSE Len(file.data),
        !.fd = [id |-> 0, data |-> file.data, pos |-> 0]]

\* load_buf_fd with a limit: buf->files = load_sparse_files(...); sz is not
\* assigned, and the file has been read by the sparse codec
LoadSparse_keeps_empty(file, limit, out) ==
    IF out.term # "return" THEN {Loaded("die", NoBuffer, limit)}
    ELSE {Loaded("true",
                 [Imported(file) EXCEPT !.type = "FB_BUFFER_SPARSE",
                                        !.files = <<>>,
                                        !.sz = sz, !.fd.pos = pos],
                 limit) :
             sz \in {0, Len(file.data), Len(file.data) + 4096},
             pos \in {0, Len(file.data)}}

LoadSparse(file, limit, out) ==
    IF out.term # "return" THEN {Loaded("die", NoBuffer, limit)}
    ELSE IF out.chunks = <<>> THEN {Loaded("false", NoBuffer, limit)}
    ELSE {Loaded("true",
                 [Imported(file) EXCEPT !.type = "FB_BUFFER_SPARSE",
                                        !.files = out.chunks,
                                        !.sz = sz, !.fd.pos = pos],
                 limit) :
             sz \in {0, Len(file.data), Len(file.data) + 4096},
             pos \in {0, Len(file.data)}}

\* load_buf_fd from the result of get_sparse_limit on
LoadLimited(file, limit) ==
    IF limit.term # "return" THEN {Loaded("die", NoBuffer, limit)}
    ELSE IF limit.ret # WideOf(0)
         THEN LoadSparse(file, limit,
                         resparse_file(sparse_file_import_auto(file),
                                       limit.ret))
    ELSE {Loaded("true",
                 [Imported(file) EXCEPT !.type = "FB_BUFFER_FD",
                                        !.sz = Len(file.data)],
                 limit)}

\* load_buf_fd(fd, buf, fp): the ways it can end, each with the buffer and
\* the cached target_sparse_limit afterwards
load_buf_fd(file, plan, capturer, target) ==
    IF file.format = "none"
    THEN {[term |-> "false", buf |-> NoBuffer, target |-> target,
           asked |-> 0]}
    ELSE LoadLimited(file, get_sparse_limit(WideOf(Len(file.data)), plan,
                                            capturer, target, dev))

has_vbmeta_partition == dev.vbmeta_partition

Sent(cmd, arg, size) == [cmd |-> cmd, arg |-> arg, size |-> size]

\* flash_partition_files: one FlashPartition per chunk, with its encoded size
flash_partition_files(partition, files) ==
    [i \in 1..Len(files) |->
        Sent("FlashPartition", partition, EncodedSize(files[i]))]

Flashed(term, buf, sent) == [term |-> term, buf |-> buf, sent |-> sent]

\* flash_buf from the switch on buf->type on
WriteBuffer(partition, out) ==
    IF out.term # "return" THEN Flashed(out.term, out.buf, <<>>)
    ELSE IF out.buf.type = "FB_BUFFER_SPARSE"
         THEN Flashed("return", out.buf,
                      flash_partition_files(partition, out.buf.files))
    ELSE Flashed("return", out.buf,
                 <<Sent("FlashPartition", partition, out.buf.sz)>>)

\* flash_buf after copy_avb_footer: the vbmeta rewrite, when one is asked for
RewriteRequested(partition, buf, apply_vbmeta, verity, verification) ==
    IF (verity \/ verification) /\ apply_vbmeta
    THEN rewrite_vbmeta_buffer(buf, FALSE, verity, verification)
    ELSE IF /\ verity \/ verification
            /\ ~has_vbmeta_partition
            /\ partition \in {"boot", "boot_a", "boot_b"}
         THEN rewrite_vbmeta_buffer(buf, TRUE, verity, verification)
    ELSE {Outcome("return", buf)}

AfterFooter(partition, copied, apply_vbmeta, verity, verification) ==
    IF copied.term # "return" THEN {Flashed(copied.term, copied.buf, <<>>)}
    ELSE {WriteBuffer(partition, out) :
             out \in RewriteRequested(partition, copied.buf, apply_vbmeta,
                                      verity, verification)}

\* flash_buf(source, partition, buf, apply_vbmeta) without a flash capturer
flash_buf(partition, buf, apply_vbmeta, in_userspace, verity, verification) ==
    IF in_userspace = "abort" THEN {Flashed("abort", buf, <<>>)}
    ELSE AfterFooter(partition,
                     copy_avb_footer(partition, buf, in_userspace = "yes"),
                     apply_vbmeta, verity, verification)

\* do_flash before load: the signature of the image, when the source has one
SignaturePush(has_signature) ==
    IF has_signature
    THEN <<Sent("Download", "signature", 0),
           Sent("RawCommand", "signature", 0)>>
    ELSE <<>>

\* do_flash once the image is loaded
FlashLoaded_resize_last(pname, loaded, has_signature, rest) ==
    {Flashed(out.term, out.buf,
             SignaturePush(has_signature) \o out.sent
                 \o (IF is_logical(pname)
                     THEN <<Sent("ResizePartition", pname,
                                 loaded.buf.image_size)>>
                     ELSE <<>>)) : out \in rest}

FlashLoaded(pname, loaded, has_signature, rest) ==
    {Flashed(out.term, out.buf,
             SignaturePush(has_signature)
                 \o (IF is_logical(pname)
                     THEN <<Sent("ResizePartition", pname,
                                 loaded.buf.image_size)>>
                     ELSE <<>>)
                 \o out.sent) : out \in rest}

\* the userspace answers flash_buf can get: none is asked for when
\* copy_avb_footer returns at buf->sz or is_logical
UserspaceAnswers(pname, buf) ==
    IF buf.sz < AVB_FOOTER_SIZE \/ is_logical(pname) THEN {"no"}
    ELSE InUserspace(pname)

\* do_flash(pname, fname, apply_vbmeta, fp) for an image of the source:
\* the ways it can end, with the commands sent and the loaded buffer
do_flash_image(pname, loaded, has_signature, apply_vbmeta, verity, verification) ==
    IF loaded.term # "true" THEN {Flashed("die", loaded.buf, <<>>)}
    ELSE UNION {FlashLoaded(pname, loaded, has_signature,
                            flash_buf(pname, loaded.buf, apply_vbmeta,
                                      in_userspace, verity, verification)) :
                   in_userspace \in UserspaceAnswers(pname, loaded.buf)}

\* image files of a source: vbmeta images, boot images, data without the
\* magic, one in the sparse format, and a name the source cannot open
FlashFiles ==
    {RawFile(Vbmeta(0)), RawFile(Bytes(10, 7)), RawFile(Bytes(320, 7)),
     RawFile(Vbmeta(0) \o AvbFooter(0)),
     RawFile(Bytes(256, 7) \o AvbFooter(0)),
     SparseFormatFile(Bytes(300, 58), <<RawRun(Bytes(280, 7)), Hole(4096)>>),
     NoFile}

FlashInit ==
    /\ pc = "flash"
    /\ tasks_ = <<>>
    /\ tasks = <<>>
    /\ run = NoRun
    /\ cmds = <<>>
    /\ dead = FALSE
    /\ note = {}
    /\ next_active = ""
    /\ target_sparse_limit = WideOf(-1)
    /\ link = NoLink
    /\ \E limit \in {0, 100, 256} : fp = [DefaultPlan EXCEPT !.sparse_limit = WideOf(limit)]
    /\ \E se \in {"absent", "valid"} :
           source = [NoSource EXCEPT !.super_empty = se,
                                     !.dynamic = IF se = "valid" THEN {"system"} ELSE {}]
    /\ \E pname \in {"vbmeta", "boot", "system"}, has_vbmeta \in BOOLEAN,
          logical \in BOOLEAN, max_download \in {NoReply, Reply("0x100")},
          size \in {NoReply, Reply("0x200")} :
           /\ dev = [DefaultDevice EXCEPT
                         !.logical = IF logical THEN {pname} ELSE {},
                         !.max_download = max_download,
                         !.partition_size = size,
                         !.vbmeta_partition = has_vbmeta]
           /\ \E file \in FlashFiles, has_signature \in BOOLEAN,
                 verity \in BOOLEAN, verification \in BOOLEAN :
                  probe = [kind |-> "flash", pname |-> pname, file |-> file,
                           has_signature |-> has_signature,
                           apply_vbmeta |-> (pname = "vbmeta"),
                           verity |-> verity, verification |-> verification,
                           step |-> "load", loaded |-> "none",
                           image |-> NoBuffer, buf |-> NoBuffer,
                           pending |-> <<>>, term |-> "none"]

\* do_flash up to the return of load_buf_fd: "could not load" ends it
ApplyLoadBufFd ==
    /\ pc = "flash"
    /\ ~dead
    /\ probe.step = "load"
    /\ \E loaded \in load_buf_fd(probe.file, fp, FALSE, target_sparse_limit) :
           /\ probe' = [probe EXCEPT !.step = "loaded",
                                     !.loaded = loaded.term,
                                     !.image = loaded.buf,
                                     !.buf = loaded.buf]
           /\ target_sparse_limit' = loaded.target
           /\ link' = [link EXCEPT !.asked = @ + loaded.asked]
           /\ dead' = (loaded.term # "true")
    /\ UNCHANGED <<fp, source, dev, pc, tasks_, tasks, run, cmds, note,
                   next_active>>

\* do_flash from the signature on: what it will send, and how it ends
ApplyDoFlash ==
    /\ pc = "flash"
    /\ ~dead
    /\ probe.step = "loaded"
    /\ \E out \in do_flash_image(probe.pname,
                                 [term |-> probe.loaded, buf |-> probe.image],
                                 probe.has_signature, probe.apply_vbmeta,
                                 probe.verity, probe.verification) :
           probe' = [probe EXCEPT !.step = "sending", !.buf = out.buf,
                                  !.pending = out.sent, !.term = out.term]
    /\ UNCHANGED <<fp, source, dev, pc, tasks_, tasks, run, cmds, dead, note,
                   next_active, target_sparse_limit, link>>

\* one device command of do_flash: a FAIL reply ends the process
SendCommand ==
    /\ pc = "flash"
    /\ ~dead
    /\ probe.step = "sending"
    /\ probe.pending # <<>>
    /\ \E status \in {"OKAY", "FAIL"} :
           /\ cmds' = Append(cmds, [cmd    |-> Head(probe.pending).cmd,
                                    arg    |-> Head(probe.pending).arg,
                                    size   |-> Head(probe.pending).size,
                                    status |-> status])
           /\ dead' = (status = "FAIL")
    /\ probe' = [probe EXCEPT !.pending = Tail(@)]
    /\ UNCHANGED <<fp, source, dev, pc, tasks_, tasks, run, note, next_active,
                   target_sparse_limit, link>>

\* do_flash returns, or the process ends in flash_buf before the writes
EndDoFlash ==
    /\ pc = "flash"
    /\ ~dead
    /\ probe.step = "sending"
    /\ probe.pending = <<>>
    /\ probe' = [probe EXCEPT !.step = "done"]
    /\ dead' = (probe.term # "return")
    /\ UNCHANGED <<fp, source, dev, pc, tasks_, tasks, run, cmds, note,
                   next_active, target_sparse_limit, link>>

FlashNext ==
    \/ ApplyLoadBufFd
    \/ ApplyDoFlash
    \/ SendCommand
    \/ EndDoFlash

FlashSpec == FlashInit /\ [][FlashNext]_vars

LoadReturned ==
    /\ pc = "flash"
    /\ probe.kind = "flash"
    /\ probe.step # "load"

(* C30: after load_buf_fd returns success, a buffer of type SPARSE has a    *)
(* non-empty chunk list whose chunks' decoded lengths sum to image_size,   *)
(* and a buffer of type FD has an empty chunk list and a transfer size     *)
(* equal to the file size; load_buf_fd never returns success with a SPARSE *)
(* buffer that has no chunks.                                              *)
C30_LoadedBuffer ==
    (LoadReturned /\ probe.loaded = "true") =>
        /\ probe.image.type \in {"FB_BUFFER_SPARSE", "FB_BUFFER_FD"}
        /\ probe.image.type = "FB_BUFFER_SPARSE" =>
               /\ probe.image.files # <<>>
               /\ DecodedLengths(probe.image.files) = probe.image.image_size
        /\ probe.image.type = "FB_BUFFER_FD" =>
               /\ probe.image.files = <<>>
               /\ probe.image.sz = Len(probe.file.data)

\* an image in the sparse format was cut into several chunks
C30_Witness ==
    /\ LoadReturned
    /\ probe.loaded = "true"
    /\ probe.file.format = "sparse"
    /\ probe.image.type = "FB_BUFFER_SPARSE"
    /\ Len(probe.image.files) > 1

\* a file sent whole
C30_WitnessWhole ==
    /\ LoadReturned
    /\ probe.loaded = "true"
    /\ probe.image.type = "FB_BUFFER_FD"
    /\ probe.image.sz = 320

\* the commands sent so far, by name
Names(sent) == [i \in 1..Len(sent) |-> sent[i].cmd]

FlashPartitions == {i \in 1..Len(cmds) : cmds[i].cmd = "FlashPartition"}

\* the commands do_flash sends before the first write of the buffer
Preamble ==
    (IF probe.has_signature THEN <<"Download", "RawCommand">> ELSE <<>>)
        \o (IF is_logical(probe.pname) THEN <<"ResizePartition">> ELSE <<>>)

OverrideRequested ==
    /\ pc = "flash"
    /\ probe.kind = "flash"
    /\ probe.verity \/ probe.verification
    /\ \/ probe.apply_vbmeta
       \/ probe.pname = "boot" /\ ~has_vbmeta_partition

\* where the vbmeta structure of the file is expected: at 0, or for a boot
\* image where its footer says
ExpectedOffset ==
    IF probe.apply_vbmeta THEN 0
    ELSE IF /\ Len(probe.file.data) >= AVB_FOOTER_SIZE
            /\ Compare(probe.file.data, Len(probe.file.data) - AVB_FOOTER_SIZE,
                       AVB_FOOTER_MAGIC) = "equal"
         THEN be64toh(SubSeq(probe.file.data,
                             Len(probe.file.data) - AVB_FOOTER_SIZE + 21,
                             Len(probe.file.data) - AVB_FOOTER_SIZE + 28))
    ELSE 0

MagicAbsent ==
    Compare(probe.file.data, ExpectedOffset, AVB_MAGIC) # "equal"

(* C21: whenever verity or verification disabling is requested and the     *)
(* image flashed as vbmeta (or the boot image on a device without a vbmeta *)
(* partition) has no AVB magic at the expected vbmeta offset, the          *)
(* invocation ends before any FlashPartition of that image.                *)
C21_NoMagicNeverFlashed ==
    (OverrideRequested /\ probe.file.format # "none" /\ MagicAbsent) =>
        FlashPartitions = {}

SlotsChange ==
    \/ fp'.current_slot # fp.current_slot
    \/ fp'.secondary_slot # fp.secondary_slot

(* C28: in a flashall/update run fp's current_slot and secondary_slot are  *)
(* assigned only by DetermineSlot, which runs once and before task         *)
(* collection; task collection, task execution and the reboot into         *)
(* userspace fastboot leave them as they are.                              *)
C28_SlotsAssignedOnce ==
    [][/\ SlotsChange =>
             /\ pc = "determine_slot"
             /\ pc' = "cancel_snapshot"
       /\ (pc # "determine_slot" /\ pc' = "determine_slot") =>
             /\ pc = "set_active"
             /\ fp.current_slot = ""
             /\ fp.secondary_slot = ""
       /\ pc = "determine_slot" =>
             /\ tasks_ = <<>>
             /\ run = NoRun]_vars

\* a run that resolved both slots has executed its tasks, the update of
\* the super partition and writes among them
C28_Witness ==
    /\ pc = "done"
    /\ ~dead
    /\ fp.current_slot # ""
    /\ fp.secondary_slot # ""
    /\ tasks_ # <<>>
    /\ \E i \in 1..Len(cmds) : cmds[i].cmd = "RawCommand" /\ cmds[i].arg = "update-super"
    /\ \E i \in 1..Len(cmds) : cmds[i].cmd = "FlashPartition"

-----------------------------------------------------------------------------
(* Lookup of a catalog image by nickname: find_item                        *)

\* getenv("ANDROID_PRODUCT_OUT"): unset, or its value
Unset == [set |-> FALSE, val |-> ""]
Env(val) == [set |-> TRUE, val |-> val]

\* get_android_product_out: the directory, or no pointer (Unset)
get_android_product_out(env) ==
    IF ~env.set \/ env.val = "" THEN Unset ELSE env

find_item_given_name(img_name, env) ==
    IF ~get_android_product_out(env).set THEN Dies
    ELSE Returns(get_android_product_out(env).val \o "/" \o img_name)

\* A mutant of find_item: entries without a nickname are looked at too.
RECURSIVE find_item_any_entry(_, _, _)
find_item_any_entry(item, env, i) ==
    IF i > Len(images) THEN Returns("")
    ELSE IF item = images[i].nickname
         THEN find_item_given_name(images[i].img_name, env)
    ELSE find_item_any_entry(item, env, i + 1)

\* find_item(item), from entry i of the catalog on
RECURSIVE find_item(_, _, _)
find_item(item, env, i) ==
    IF i > Len(images) THEN Returns("")
    ELSE IF images[i].nickname # "" /\ item = images[i].nickname
         THEN find_item_given_name(images[i].img_name, env)
    ELSE find_item(item, env, i + 1)

\* names handed to find_item: the nicknames, the empty string, names of
\* images and of partitions that are no nickname
ItemNames ==
    {images[i].nickname : i \in 1..Len(images)}
        \cup {"", "bogus", "boot_other", "boot.img", "system_other", "dt"}

Environments == {Unset, Env(""), Env("/out"), Env("out/target/product/x")}

LookupInit ==
    /\ fp = DefaultPlan
    /\ source = NoSource
    /\ dev = DefaultDevice
    /\ pc = "lookup"
    /\ tasks_ = <<>>
    /\ tasks = <<>>
    /\ run = NoRun
    /\ cmds = <<>>
    /\ dead = FALSE
    /\ note = {}
    /\ next_active = ""
    /\ target_sparse_limit = WideOf(-1)
    /\ link = NoLink
    /\ \E item \in ItemNames, env \in Environments :
           probe = [kind |-> "find_item", item |-> item, env |-> env,
                    applied |-> 0, term |-> "none", ret |-> ""]

ApplyFindItem ==
    /\ pc = "lookup"
    /\ ~dead
    /\ probe.kind = "find_item"
    /\ probe.applied = 0
    /\ probe' = [probe EXCEPT !.applied = 1,
                              !.term = find_item(probe.item, probe.env, 1).term,
                              !.ret = find_item(probe.item, probe.env, 1).ret]
    /\ dead' = (find_item(probe.item, probe.env, 1).term # "return")
    /\ UNCHANGED <<fp, source, dev, pc, tasks_, tasks, run, cmds, note,
                   next_active, target_sparse_limit, link>>

LookupNext == ApplyFindItem

LookupSpec == LookupInit /\ [][LookupNext]_vars

ItemFound ==
    /\ pc = "lookup"
    /\ probe.kind = "find_item"
    /\ probe.applied = 1

Nicknames == {images[i].nickname : i \in 1..Len(images)} \ {""}

\* the image file of a nickname
ImageOf(nickname) ==
    images[CHOOSE i \in 1..Len(images) : images[i].nickname = nickname].img_name

SecondaryFiles == {images[i].img_name : i \in {j \in 1..Len(images) : images[j].nickname = ""}}

\* what find_item does for a name that is no nickname, and never does
UnknownAndSecondary ==
    /\ probe.item \notin Nicknames =>
           /\ probe.term = "return"
           /\ probe.ret = ""
    /\ \A file \in SecondaryFiles :
           probe.ret # probe.env.val \o "/" \o file

(* C29: find_item(nickname) returns the product-output path of the catalog *)
(* image for every non-empty catalog nickname; for every name that is no   *)
(* catalog nickname, the empty string included, it returns an empty path   *)
(* without ending the process; the image of a secondary-slot entry is      *)
(* never returned.                                                         *)
C29_FindItem ==
    ItemFound =>
        /\ probe.item \in Nicknames =>
               /\ probe.term = "return"
               /\ probe.ret = probe.env.val \o "/" \o ImageOf(probe.item)
        /\ UnknownAndSecondary

(* C29, amended: the path is returned when ANDROID_PRODUCT_OUT is set and  *)
(* not empty; when it is unset or empty, find_item of a catalog nickname   *)
(* ends the process.                                                       *)
C29_FindItemWithProductOut ==
    ItemFound =>
        /\ (probe.item \in Nicknames /\ probe.env.set /\ probe.env.val # "") =>
               /\ probe.term = "return"
               /\ probe.ret = probe.env.val \o "/" \o ImageOf(probe.item)
        /\ (probe.item \in Nicknames /\ ~(probe.env.set /\ probe.env.val # "")) =>
               probe.term = "die"
        /\ UnknownAndSecondary

\* a nickname was resolved below the product-output directory
C29_Witness ==
    /\ ItemFound
    /\ probe.item = "dts"
    /\ probe.ret = "/out/dt.img"

\* the empty name was looked up and nothing was found
C29_WitnessEmpty ==
    /\ ItemFound
    /\ probe.item = ""
    /\ probe.env.set
    /\ probe.term = "return"
    /\ probe.ret = ""

-----------------------------------------------------------------------------
(* The connected-device registry: connect, disconnect, devices             *)

\* android::base::StartsWith over the serials of the model
Remainders == {"", "a", "b", "usb1"}
StartsWith(s, prefix) == \E rest \in Remainders : s = prefix \o rest

\* ParseNetworkSerial: the protocol, or the error; ParseNetAddress refuses
\* an empty address
ParseNetworkSerial(serial) ==
    IF ~StartsWith(serial, "tcp:") /\ ~StartsWith(serial, "udp:")
    THEN "NETWORK_SERIAL_WRONG_PREFIX"
    ELSE IF serial \in {"tcp:", "udp:"} THEN "NETWORK_SERIAL_WRONG_ADDRESS"
    ELSE IF StartsWith(serial, "tcp:") THEN "kTcp"
    ELSE "kUdp"

ParseOk(serial) == ParseNetworkSerial(serial) \in {"kTcp", "kUdp"}

\* one invocation: the words left after the options, and optind, one more
\* than the number of option words
Invocation(args, optind) == [args |-> args, optind |-> optind]

\* main: argc -= optind; argv += optind, done a second time for connect and
\* disconnect
Shifted(inv) ==
    [argc |-> Len(inv.args) - inv.optind,
     argv |-> SubSeq(inv.args, inv.optind + 1, Len(inv.args))]

\* Connect(argc, argv) up to open_device: where the process goes on
Connect(argc, argv) ==
    IF argc # 1 THEN [pc |-> "aborted", serial |-> ""]
    ELSE IF ~ParseOk(argv[1]) THEN [pc |-> "dead", serial |-> argv[1]]
    ELSE [pc |-> "open", serial |-> argv[1]]

\* Disconnect(argc, argv) up to the lock
Disconnect(argc, argv) ==
    IF argc = 0 THEN [pc |-> "clear_lock", serial |-> ""]
    ELSE IF argc # 1 THEN [pc |-> "aborted", serial |-> ""]
    ELSE IF ~ParseOk(argv[1]) THEN [pc |-> "dead", serial |-> argv[1]]
    ELSE [pc |-> "lock", serial |-> argv[1]]

\* main from the test of the command word on
Dispatch(inv) ==
    IF inv.args[1] = "devices" THEN [pc |-> "list_lock", serial |-> ""]
    ELSE IF inv.args[1] = "connect"
         THEN Connect(Shifted(inv).argc, Shifted(inv).argv)
    ELSE Disconnect(Shifted(inv).argc, Shifted(inv).argv)

\* FileLock: the lock of the registry file is free, or held by a process
Free_always(lock) == TRUE

Free(lock) == lock = 0

MaxProcs == 2        \* processes running connect, disconnect or devices

Procs == 1..MaxProcs

Invocations ==
    {Invocation(<<"connect", "tcp:a">>, 1),
     Invocation(<<"connect", "udp:b">>, 1),
     Invocation(<<"connect", "usb1">>, 1),
     Invocation(<<"connect", "tcp:a">>, 2),
     Invocation(<<"disconnect", "tcp:a">>, 1),
     Invocation(<<"disconnect", "tcp:a">>, 2),
     Invocation(<<"disconnect">>, 1),
     Invocation(<<"devices">>, 1)}

\* registry contents: what connect has written before
Registries == {{}, {"tcp:a"}, {"tcp:a", "udp:b"}}

Started(inv) ==
    [inv |-> inv, pc |-> "main", serial |-> "", devices |-> {},
     answered |-> FALSE, op |-> "none"]

RegistryInit ==
    /\ fp = DefaultPlan
    /\ source = NoSource
    /\ dev = DefaultDevice
    /\ pc = "registry"
    /\ tasks_ = <<>>
    /\ tasks = <<>>
    /\ run = NoRun
    /\ cmds = <<>>
    /\ dead = FALSE
    /\ note = {}
    /\ next_active = ""
    /\ target_sparse_limit = WideOf(-1)
    /\ link = NoLink
    /\ \E file \in Registries, invs \in [Procs -> Invocations] :
           probe = [kind |-> "registry", first |-> file, file |-> file,
                    lock |-> 0,
                    procs |-> [p \in Procs |-> Started(invs[p])]]

Proc(p) == probe.procs[p]

\* one step of process p: its fields, the file and the lock after it
Step(p, proc, file, lock) ==
    /\ pc = "registry"
    /\ probe.kind = "registry"
    /\ probe' = [probe EXCEPT !.procs[p] = proc, !.file = file, !.lock = lock]
    /\ UNCHANGED <<fp, source, dev, pc, tasks_, tasks, run, cmds, dead, note,
                   next_active, target_sparse_limit, link>>

\* main up to Connect, Disconnect or list_devices
MainCommand(p) ==
    /\ Proc(p).pc = "main"
    /\ Step(p, [Proc(p) EXCEPT !.pc = Dispatch(Proc(p).inv).pc,
                               !.serial = Dispatch(Proc(p).inv).serial,
                               !.op = CASE Proc(p).inv.args[1] = "connect"
                                               -> "insert"
                                        [] Proc(p).inv.args[1] = "disconnect"
                                               -> "erase"
                                        [] OTHER -> "none"],
            probe.file, probe.lock)

\* Connect: open_device(local_serial, false) finds the device or does not
ConnectOpen(p) ==
    /\ Proc(p).pc = "open"
    /\ \E answers \in BOOLEAN :
           Step(p, [Proc(p) EXCEPT !.pc = IF answers THEN "lock" ELSE "done",
                                   !.answered = answers],
                probe.file, probe.lock)

\* storage.Lock(): waits until the lock is free
Lock(p) ==
    /\ Proc(p).pc \in {"lock", "clear_lock", "list_lock"}
    /\ Free(probe.lock)
    /\ Step(p, [Proc(p) EXCEPT !.pc = CASE Proc(p).pc = "lock" -> "read"
                                        [] Proc(p).pc = "clear_lock" -> "clear"
                                        [] OTHER -> "list_read"],
            probe.file, p)

\* storage.ReadDevices(lock)
ReadDevices(p) ==
    /\ Proc(p).pc \in {"read", "list_read"}
    /\ Step(p, [Proc(p) EXCEPT !.pc = IF Proc(p).pc = "read" THEN "write"
                                      ELSE "unlock",
                               !.devices = probe.file],
            probe.file, probe.lock)

\* devices.insert / devices.erase and storage.WriteDevices(lock, devices)
WriteDevices(p) ==
    /\ Proc(p).pc = "write"
    /\ Step(p, [Proc(p) EXCEPT !.pc = "unlock"],
            IF Proc(p).op = "insert"
            THEN Proc(p).devices \cup {Proc(p).serial}
            ELSE Proc(p).devices \ {Proc(p).serial},
            probe.lock)

\* storage.Clear(lock)
Clear(p) ==
    /\ Proc(p).pc = "clear"
    /\ Step(p, [Proc(p) EXCEPT !.pc = "unlock", !.op = "clear"], {}, probe.lock)

\* the FileLock goes out of scope
Unlock(p) ==
    /\ Proc(p).pc = "unlock"
    /\ Step(p, [Proc(p) EXCEPT !.pc = "done"], probe.file, 0)

RegistryNext ==
    \E p \in Procs :
        \/ MainCommand(p)
        \/ ConnectOpen(p)
        \/ Lock(p)
        \/ ReadDevices(p)
        \/ WriteDevices(p)
        \/ Clear(p)
        \/ Unlock(p)

RegistrySpec == RegistryInit /\ [][RegistryNext]_vars

AllDone ==
    \A p \in Procs : Proc(p).pc \in {"done", "dead", "aborted"}

\* what process p did to the registry, as one step
Effect(p, file) ==
    CASE Proc(p).pc # "done" -> file
      [] Proc(p).op = "clear" -> {}
      [] Proc(p).op = "insert" /\ Proc(p).answered -> file \cup {Proc(p).serial}
      [] Proc(p).op = "erase" -> file \ {Proc(p).serial}
      [] OTHER -> file

\* the registries the processes of S leave when they run one after another
RECURSIVE SerialResults(_, _)
SerialResults(file, S) ==
    IF S = {} THEN {file}
    ELSE UNION {SerialResults(Effect(p, file), S \ {p}) : p \in S}

(* C24: concurrent connect and disconnect processes never lose an update   *)
(* to the registry: each holds the file lock from before its read until    *)
(* after its write, and the final content is what the operations give in   *)
(* some serial order.                                                      *)
C24_NoLostUpdate ==
    (pc = "registry" /\ probe.kind = "registry") =>
        /\ \A p \in Procs :
               /\ Proc(p).pc \in {"read", "write", "clear", "unlock", "list_read"}
                      => probe.lock = p
               /\ Proc(p).pc = "write" => Proc(p).devices = probe.file
        /\ AllDone => probe.file \in SerialResults(probe.first, Procs)

\* a connect and a disconnect ran at once; one waited for the lock while the
\* other was between its read and its write
C24_WitnessWaiting ==
    /\ pc = "registry"
    /\ probe.kind = "registry"
    /\ \E p \in Procs, q \in Procs :
           /\ Proc(p).pc = "lock"
           /\ Proc(p).op = "insert"
           /\ Proc(q).pc = "write"
           /\ Proc(q).op = "erase"

\* both have finished and both updates are in the registry
C24_Witness ==
    /\ pc = "registry"
    /\ probe.kind = "registry"
    /\ AllDone
    /\ probe.first = {"tcp:a"}
    /\ probe.file = {"udp:b"}
    /\ \E p \in Procs, q \in Procs :
           /\ Proc(p).op = "insert" /\ Proc(p).answered
           /\ Proc(q).op = "erase" /\ Proc(q).serial = "tcp:a"

\* the process that takes the step
Stepping(p) == probe'.procs[p] # probe.procs[p]

(* C25: the registry changes only through connect and disconnect: connect  *)
(* adds its address, and only after the connection to it succeeded;        *)
(* disconnect <addr> removes exactly that address; disconnect without      *)
(* argument empties the registry; a failed connect, an address without     *)
(* tcp: or udp: prefix, and the listing of devices leave it as it is.      *)
C25_RegistryFrame ==
    [][(pc = "registry" /\ probe.kind = "registry"
            /\ probe'.file # probe.file) =>
          \E p \in Procs :
              /\ Stepping(p)
              /\ \/ /\ Proc(p).inv.args[1] = "connect"
                    /\ Proc(p).answered
                    /\ ParseOk(Proc(p).serial)
                    /\ Proc(p).serial \in
                           {Proc(p).inv.args[i] : i \in 2..Len(Proc(p).inv.args)}
                    /\ probe'.file = probe.file \cup {Proc(p).serial}
                 \/ /\ Proc(p).inv.args[1] = "disconnect"
                    /\ Len(Proc(p).inv.args) = 2
                    /\ probe'.file = probe.file \ {Proc(p).inv.args[2]}
                 \/ /\ Proc(p).inv.args[1] = "disconnect"
                    /\ Len(Proc(p).inv.args) = 1
                    /\ probe'.file = {}]_vars

-----------------------------------------------------------------------------
(* Device discovery without a serial: open_device()                        *)

MaxChanges == 2      \* how often devices appear or go away during discovery

\* the serials of a registry in the order of std::set<std::string>
SerialOrder == <<"tcp:a", "udp:b">>

\* open_device(local_serial, false, false): the transport made, if any
OpenSerial(serial, usb, answering) ==
    IF ParseOk(serial) THEN serial \in answering
    ELSE IF ParseNetworkSerial(serial) = "NETWORK_SERIAL_WRONG_PREFIX" THEN usb
    ELSE FALSE

\* NetworkDeviceConnected from device i of the registry on: the transport it
\* returns, the last that answered, and how many transports were made
RECURSIVE NetworkDeviceConnected(_, _, _, _, _)
NetworkDeviceConnected(devices, usb, answering, i, result) ==
    IF i > Len(SerialOrder) THEN result
    ELSE IF SerialOrder[i] \in devices
            /\ OpenSerial(SerialOrder[i], usb, answering)
         THEN NetworkDeviceConnected(devices, usb, answering, i + 1,
                                     [transport |-> SerialOrder[i],
                                      made |-> result.made + 1])
    ELSE NetworkDeviceConnected(devices, usb, answering, i + 1, result)

NoTransport == [transport |-> "none", made |-> 0]

Tried(what, found) == [what |-> what, found |-> found]

DiscoverInit ==
    /\ fp = DefaultPlan
    /\ source = NoSource
    /\ dev = DefaultDevice
    /\ pc = "discover"
    /\ tasks_ = <<>>
    /\ tasks = <<>>
    /\ run = NoRun
    /\ cmds = <<>>
    /\ dead = FALSE
    /\ note = {}
    /\ next_active = ""
    /\ target_sparse_limit = WideOf(-1)
    /\ link = NoLink
    /\ \E usb \in BOOLEAN, registry \in Registries :
           \E answering \in SUBSET registry :
               probe = [kind |-> "discover", usb |-> usb,
                        registry |-> registry, answering |-> answering,
                        at |-> "usb", round |-> <<>>, announce |-> TRUE,
                        transport |-> "none", made |-> 0, changes |-> 0,
                        reboots |-> 0]

Discovering ==
    /\ pc = "discover"
    /\ probe.kind = "discover"
    /\ ~dead

Rest ==
    UNCHANGED <<fp, source, dev, pc, tasks_, tasks, run, cmds, dead, note,
                next_active, target_sparse_limit, link>>

\* a device is plugged in or removed, or starts or stops answering
DevicesChange ==
    /\ Discovering
    /\ probe.changes < MaxChanges
    /\ \E usb \in BOOLEAN, answering \in SUBSET probe.registry :
           /\ usb # probe.usb \/ answering # probe.answering
           /\ probe' = [probe EXCEPT !.usb = usb, !.answering = answering,
                                     !.changes = @ + 1]
    /\ Rest

\* open_device: transport = usb_open(match_fastboot(nullptr))
UsbOpen ==
    /\ Discovering
    /\ probe.at = "usb"
    /\ probe' = [probe EXCEPT
                     !.round = Append(@, Tried("usb", probe.usb)),
                     !.at = IF probe.usb THEN "connected" ELSE "network",
                     !.transport = IF probe.usb THEN "usb" ELSE "none",
                     !.made = IF probe.usb THEN @ + 1 ELSE @]
    /\ Rest

\* open_device: transport = NetworkDeviceConnected(), and the announcement
\* when nothing answered
NetworkProbe ==
    /\ Discovering
    /\ probe.at = "network"
    /\ \E found \in {NetworkDeviceConnected(probe.registry, probe.usb,
                                            probe.answering, 1, NoTransport)} :
           probe' = [probe EXCEPT
                         !.round = Append(@, Tried("registry",
                                                   found.transport # "none")),
                         !.at = IF found.transport # "none" THEN "connected"
                                ELSE "sleep",
                         !.transport = found.transport,
                         !.made = @ + found.made,
                         !.announce = IF found.transport # "none" THEN @
                                      ELSE FALSE]
    /\ Rest

\* A mutant of Sleep: the loop gives up after the first round.
Sleep_gives_up ==
    /\ Discovering
    /\ probe.at = "sleep"
    /\ probe' = [probe EXCEPT !.at = "failed"]
    /\ Rest

\* open_device: std::this_thread::sleep_for(std::chrono::seconds(1))
Sleep ==
    /\ Discovering
    /\ probe.at = "sleep"
    /\ probe' = [probe EXCEPT !.round = <<Tried("sleep", FALSE)>>,
                              !.at = "usb"]
    /\ Rest

\* reboot_to_userspace_fastboot up to its call of open_device
RebootToUserspace ==
    /\ Discovering
    /\ probe.at = "connected"
    /\ probe.reboots < MaxReboots
    /\ cmds' = Append(cmds, [cmd |-> "RebootTo", arg |-> "fastboot",
                             status |-> "OKAY"])
    /\ probe' = [probe EXCEPT !.transport = "none", !.round = <<>>,
                              !.at = "usb", !.reboots = @ + 1]
    /\ UNCHANGED <<fp, source, dev, pc, tasks_, tasks, run, dead, note,
                   next_active, target_sparse_limit, link>>

Probing == UsbOpen \/ NetworkProbe \/ Sleep

DiscoverNext ==
    \/ DevicesChange
    \/ UsbOpen
    \/ NetworkProbe
    \/ Sleep
    \/ RebootToUserspace

DiscoverSpec == DiscoverInit /\ [][DiscoverNext]_vars

\* the loop of open_device keeps running
DiscoverFair == DiscoverSpec /\ WF_vars(Probing)

InDiscovery == pc = "discover" /\ probe.kind = "discover"

\* within a round USB is tried first, the registry only after USB found
\* nothing, and a round that is not the first follows a sleep
RoundOrder ==
    \A i \in 1..Len(probe.round) :
        /\ probe.round[i].what = "sleep" => i = 1
        /\ probe.round[i].what = "usb" =>
               i = 1 \/ (i = 2 /\ probe.round[1].what = "sleep")
        /\ probe.round[i].what = "registry" =>
               /\ i > 1
               /\ probe.round[i - 1] = Tried("usb", FALSE)

\* open_device has returned exactly when a transport was found
ReturnsConnected ==
    /\ ~dead
    /\ probe.at \in {"usb", "network", "sleep", "connected"}
    /\ probe.at = "connected" <=> probe.transport # "none"
    /\ probe.at = "connected" =>
           /\ probe.round # <<>>
           /\ probe.round[Len(probe.round)].found

\* a new round starts only from the sleep after a round that found nothing
SleepBetweenRounds ==
    (InDiscovery /\ probe.at # "usb" /\ probe'.at = "usb") =>
        \/ /\ probe.at = "sleep"
           /\ probe.round[Len(probe.round)] = Tried("registry", FALSE)
           /\ probe'.round = <<Tried("sleep", FALSE)>>
        \/ /\ probe.at = "connected"
           /\ probe'.reboots = probe.reboots + 1

Answers ==
    InDiscovery /\ (probe.usb \/ probe.registry \cap probe.answering # {})

Connected == InDiscovery /\ probe.at = "connected"

(* C22: discovery without an address tries USB before the registry in      *)
(* every round and consults the registry only when USB found nothing; it   *)
(* has no failed outcome: open_device returns only with a connection and   *)
(* sleeps one second between rounds; and if from some time on a USB device *)
(* or a registered network device answers, open_device eventually returns  *)
(* a connection.                                                           *)
C22_Discovery ==
    /\ [](InDiscovery => RoundOrder /\ ReturnsConnected)
    /\ [][SleepBetweenRounds]_vars
    /\ (<>[]Answers) => <>Connected

\* nothing answered in the first round; after the sleep USB found nothing
\* again and a registered device answered
C22_Witness ==
    /\ Connected
    /\ probe.round = <<Tried("sleep", FALSE), Tried("usb", FALSE),
                       Tried("registry", TRUE)>>
    /\ ~probe.announce

(* C23: the connection handle is a singleton for the process: over any     *)
(* run, reboots into userspace fastboot and probes of several registry     *)
(* entries included, at most one handle is ever constructed.               *)
C23_OneHandle ==
    InDiscovery => probe.made <= 1

-----------------------------------------------------------------------------
(* wipe_super: the temporary image files                                   *)

BlockDevice(partition, slot_suffixed) ==
    [partition |-> partition, slot_suffixed |-> slot_suffixed]

\* metadata.block_devices of the super image: one device, or the devices of
\* a retrofit layout
BlockDeviceLists ==
    {<<BlockDevice("super", FALSE)>>,
     <<BlockDevice("system", TRUE), BlockDevice("vendor", TRUE)>>,
     <<BlockDevice("system", TRUE), BlockDevice("vendor", TRUE),
       BlockDevice("product", FALSE)>>}

\* the name of the image file of block device i in the temporary directory
image_name(devices, i) ==
    IF Len(devices) > 1 THEN "super_" \o devices[i].partition \o ".img"
    ELSE devices[i].partition \o ".img"

\* the files WriteToImageFile or WriteSplitImageFiles leaves when it succeeds
Generated(devices) == {image_name(devices, i) : i \in 1..Len(devices)}

WipeSuperInit ==
    /\ fp = DefaultPlan
    /\ source = NoSource
    /\ pc = "wipe_super"
    /\ tasks_ = <<>>
    /\ tasks = <<>>
    /\ run = NoRun
    /\ cmds = <<>>
    /\ dead = FALSE
    /\ note = {}
    /\ next_active = ""
    /\ target_sparse_limit = WideOf(-1)
    /\ link = NoLink
    /\ dev \in {ABDevice, PlainDevice,
                [ABDevice EXCEPT !.has_slot_ok = FALSE]}
    /\ \E devices \in BlockDeviceLists, slot \in {"a", "b", "all"} :
           probe = [kind |-> "wipe_super", devices |-> devices, slot |-> slot,
                    at |-> "start", i |-> 1, dir |-> FALSE, files |-> {}]

InWipeSuper ==
    /\ pc = "wipe_super"
    /\ probe.kind = "wipe_super"

\* wipe_super up to the TemporaryDir: oem allow-flash-super on a retrofit
\* device
WipeAllowFlashSuper ==
    /\ InWipeSuper /\ ~dead
    /\ probe.at = "start"
    /\ Issue(IF probe.devices[1].partition # "super"
             THEN <<Cmd("RawCommand", "oem allow-flash-super")>> ELSE <<>>)
    /\ probe' = [probe EXCEPT !.at = IF dead' THEN "died" ELSE "generate"]
    /\ UNCHANGED <<fp, source, dev, pc, tasks_, tasks, run, note, next_active,
                   target_sparse_limit, link>>

\* wipe_super: the TemporaryDir and the image files; when they cannot be
\* written it returns false, the directory is removed with what is in it,
\* and do_wipe_super dies with the message
WipeGenerate ==
    /\ InWipeSuper /\ ~dead
    /\ probe.at = "generate"
    /\ \E ok \in BOOLEAN :
           /\ probe' = [probe EXCEPT
                            !.at = IF ok THEN "flash" ELSE "returned_false",
                            !.dir = ok,
                            !.files = IF ok THEN Generated(probe.devices)
                                      ELSE {}]
           /\ dead' = ~ok
    /\ UNCHANGED <<fp, source, dev, pc, tasks_, tasks, run, cmds, note,
                   next_active, target_sparse_limit, link>>

\* the FlashPartition commands of the first n names, the last one refused
\* when the process dies there
Flashes(names, n, refused) ==
    [k \in 1..n |-> [cmd |-> "FlashPartition", arg |-> names[k],
                     status |-> IF refused /\ k = n THEN "FAIL" ELSE "OKAY"]]

\* wipe_super: do_for_partitions with do_flash for block device i, then
\* unlink(image_path); after the last device return true and the
\* TemporaryDir goes out of scope. A die in do_for_partitions or do_flash
\* ends the process where it is.
WipeFlash ==
    /\ InWipeSuper /\ ~dead
    /\ probe.at = "flash"
    /\ \E n \in 0..Len(do_for_partitions(probe.devices[probe.i].partition,
                                        probe.slot,
                                        probe.devices[probe.i].slot_suffixed).names),
          refused \in BOOLEAN :
           /\ refused => n > 0
           /\ (~refused /\ do_for_partitions(probe.devices[probe.i].partition,
                                             probe.slot,
                                             probe.devices[probe.i].slot_suffixed).term = "return")
                  => n = Len(do_for_partitions(probe.devices[probe.i].partition,
                                               probe.slot,
                                               probe.devices[probe.i].slot_suffixed).names)
           /\ cmds' = cmds \o Flashes(do_for_partitions(probe.devices[probe.i].partition,
                                                        probe.slot,
                                                        probe.devices[probe.i].slot_suffixed).names,
                                      n, refused)
           /\ dead' = (refused \/ do_for_partitions(probe.devices[probe.i].partition,
                                                   probe.slot,
                                                   probe.devices[probe.i].slot_suffixed).term # "return")
    /\ probe' = IF dead' THEN [probe EXCEPT !.at = "died"]
                ELSE IF probe.i < Len(probe.devices)
                     THEN [probe EXCEPT
                               !.files = @ \ {image_name(probe.devices, probe.i)},
                               !.i = @ + 1]
                ELSE [probe EXCEPT !.files = {}, !.dir = FALSE,
                                   !.at = "returned_true"]
    /\ UNCHANGED <<fp, source, dev, pc, tasks_, tasks, run, note, next_active,
                   target_sparse_limit, link>>

WipeSuperNext ==
    \/ WipeAllowFlashSuper
    \/ WipeGenerate
    \/ WipeFlash

WipeSuperSpec == WipeSuperInit /\ [][WipeSuperNext]_vars

WipeSuperLeft ==
    /\ InWipeSuper
    /\ probe.at \in {"returned_true", "returned_false", "died"}

(* C26: wipe_super removes every temporary image file it generated on      *)
(* every way of leaving the operation: normal completion, failure to       *)
(* generate the image, and a fatal failure while flashing one of the       *)
(* images.                                                                 *)
C26_NoTemporaryFileLeft ==
    WipeSuperLeft => probe.files = {} /\ ~probe.dir

-----------------------------------------------------------------------------
(* The end of task collection applied to task lists: Initialize and        *)
(* AddResizeTasks, and the filter of CollectTasks                          *)

MaxTasks == 3        \* longest task list handed to AddResizeTasks

TaskPool ==
    {FlashTask("", "boot", "boot.img", FALSE),
     FlashTask("", "system", "system.img", FALSE),
     FlashTask("", "vendor", "vendor.img", FALSE),
     FlashTask("b", "system", "system_other.img", FALSE),
     RebootTask("fastboot"), UpdateSuperTask, WipeTask("userdata")}

TaskLists == UNION {[1..n -> TaskPool] : n \in 0..MaxTasks}

\* super_empty.img of the source and the partitions of its metadata
SuperEmpties ==
    {Metadata("absent", {}, FALSE), Metadata("unparsable", {}, FALSE),
     Metadata("valid", {}, TRUE),
     Metadata("valid", {"system", "system_a"}, TRUE),
     Metadata("valid", {"system", "vendor", "system_a", "vendor_a", "system_b"},
              TRUE)}

ResizeInit ==
    /\ pc = "augment"
    /\ tasks_ = <<>>
    /\ tasks = <<>>
    /\ run = NoRun
    /\ cmds = <<>>
    /\ dead = FALSE
    /\ note = {}
    /\ next_active = ""
    /\ target_sparse_limit = WideOf(-1)
    /\ link = NoLink
    /\ dev \in {PlainDevice, ABDevice}
    /\ \E optimize \in BOOLEAN, slot_override \in {"", "b"} :
           fp = [DefaultPlan EXCEPT !.should_optimize_flash_super = optimize,
                                    !.slot_override = slot_override]
    /\ \E meta \in SuperEmpties :
           source = [NoSource EXCEPT !.super_empty = meta.super,
                                     !.dynamic = meta.dyn,
                                     !.can_optimize = meta.opt]
    /\ \E list \in TaskLists :
           probe = [kind |-> "augment", list |-> list, applied |-> 0,
                    term |-> "none", result |-> <<>>, failed |-> FALSE]

\* CollectTasksFromImageList and ParseFastbootInfo from Initialize on
ApplyAugment ==
    /\ pc = "augment"
    /\ ~dead
    /\ probe.kind = "augment"
    /\ probe.applied = 0
    /\ probe' = [probe EXCEPT
                     !.applied = 1,
                     !.term = Augment(fp, probe.list).term,
                     !.result = Augment(fp, probe.list).tasks,
                     !.failed = Augment(fp, probe.list).note # {}]
    /\ dead' = (Augment(fp, probe.list).term # "return")
    /\ UNCHANGED <<fp, source, dev, pc, tasks_, tasks, run, cmds, note,
                   next_active, target_sparse_limit, link>>

ResizeNext == ApplyAugment

ResizeSpec == ResizeInit /\ [][ResizeNext]_vars

Augmented ==
    /\ pc = "augment"
    /\ probe.kind = "augment"
    /\ probe.applied = 1
    /\ probe.term = "return"

\* the places of the Flash tasks of dynamic partitions in the list
DynamicFlashes(list) ==
    {i \in 1..Len(list) :
        /\ list[i].type = "Flash"
        /\ IsDynamicPartition(list[i]).term = "return"
        /\ IsDynamicPartition(list[i]).ret}

First(S) == CHOOSE i \in S : \A j \in S : i <= j

\* the k-th place of S in rising order
RECURSIVE Nth(_, _)
Nth(S, k) == IF k = 1 THEN First(S) ELSE Nth(S \ {First(S)}, k - 1)

HasType(list, type) == \E i \in 1..Len(list) : list[i].type = type

\* the block of Resize tasks sits right before the first dynamic Flash task
\* and the tasks around it are the list
ResizeBlock(list, result, D) ==
    /\ Len(result) = Len(list) + Cardinality(D)
    /\ SubSeq(result, 1, First(D) - 1) = SubSeq(list, 1, First(D) - 1)
    /\ SubSeq(result, First(D) + Cardinality(D), Len(result))
           = SubSeq(list, First(D), Len(list))
    /\ \A k \in 1..Cardinality(D) :
           /\ result[First(D) - 1 + k].type = "Resize"
           /\ result[First(D) - 1 + k].arg = "0"
           /\ result[First(D) - 1 + k].pname = list[Nth(D, k)].pname

(* C31: when no OptimizedFlashSuper task is produced and AddResizeTasks     *)
(* succeeds, exactly one Resize-to-0 task per dynamic-partition Flash task *)
(* is inserted, as one block right before the first such Flash task, and   *)
(* the other tasks keep their order; without a dynamic-partition Flash     *)
(* task or without readable metadata the list is unchanged; no list holds  *)
(* both an OptimizedFlashSuper task and Resize tasks.                      *)
C31_ResizeBlock ==
    Augmented =>
        /\ (~HasType(probe.result, "OptimizedFlashSuper") /\ ~probe.failed) =>
               /\ DynamicFlashes(probe.list) # {}
               /\ ResizeBlock(probe.list, probe.result,
                              DynamicFlashes(probe.list))
        /\ (~HasType(probe.result, "OptimizedFlashSuper")
                /\ (DynamicFlashes(probe.list) = {}
                        \/ source.super_empty # "valid")) =>
               probe.result = probe.list
        /\ ~(HasType(probe.result, "OptimizedFlashSuper")
                 /\ HasType(probe.result, "Resize"))

\* two Resize tasks were put between a boot Flash task and the Flash tasks
\* of system and vendor
C31_Witness ==
    /\ Augmented
    /\ Len(probe.list) = 3
    /\ probe.list[1].pname = "boot"
    /\ Len(probe.result) = 5
    /\ probe.result[2].type = "Resize" /\ probe.result[2].pname = "system"
    /\ probe.result[3].type = "Resize" /\ probe.result[3].pname = "vendor"
    /\ probe.result[4].type = "Flash"

-----------------------------------------------------------------------------
(* Slot override "all": the images of the other slot                       *)

\* the Flash tasks of the collected list whose file is an image of the
\* catalog's secondary entries
SecondaryFlashes ==
    {i \in 1..Len(tasks_) : /\ tasks_[i].type = "Flash"
                            /\ tasks_[i].fname \in SecondaryFiles}

\* C32: when the slot override is "all" the task list holds no Flash task
\* for an image of the other slot, under flashall and under update alike.
C32_AllSkipsSecondary ==
    fp.slot_override = "all" => SecondaryFlashes = {}

\* C32 under flashall alone, the command whose branch of Main sets
\* skip_secondary.
C32_FlashallSkipsSecondary ==
    (fp.slot_override = "all" /\ source.kind = "local") => SecondaryFlashes = {}

-----------------------------------------------------------------------------
(* Requirements of android-info.txt on the partitions of the device        *)

\* android-info.txt holds "require partition-exists=X"
Required(X) ==
    \E k \in 1..Len(source.android_info) :
        /\ source.android_info[k].ok
        /\ source.android_info[k].name = "partition-exists"
        /\ source.android_info[k].options = <<X>>

\* the catalog nicknames android-info.txt requires
RequiredNicknames ==
    {source.android_info[k].options[1] :
        k \in {j \in 1..Len(source.android_info) :
                  /\ source.android_info[j].ok
                  /\ source.android_info[j].name = "partition-exists"}} \cap Nicknames

\* the catalog type of a nickname
TypeOf(nickname) ==
    images[CHOOSE i \in 1..Len(images) : images[i].nickname = nickname].type

\* the tasks of the run come from the catalog, not from fastboot-info.txt
FromImageList ==
    ~(fp.should_use_fastboot_info /\ "fastboot-info.txt" \in source.files)

\* the device has X, its image is required by android-info.txt and missing
RequiredAndMissing(X) ==
    /\ Required(X)
    /\ dev.has_slot_ok
    /\ ImageOf(X) \notin source.files

\* the image files of the catalog's primary boot and OS entries
PrimaryFiles ==
    {images[i].img_name :
        i \in {j \in 1..Len(images) : /\ images[j].nickname # ""
                                      /\ images[j].type \in {"BootCritical", "Normal"}}}

\* the files the Flash tasks of the collected list name
FlashedFiles ==
    {tasks_[k].fname : k \in {j \in 1..Len(tasks_) : tasks_[j].type = "Flash"}}

\* the collected list holds a Flash task for exactly the present images of
\* the catalog's primary boot and OS entries; a list that ends in the
\* OptimizedFlashSuper task has the super image carry the dynamic partitions
PresentFlashed ==
    (\A k \in 1..Len(tasks_) : tasks_[k].type # "OptimizedFlashSuper") =>
        FlashedFiles \cap PrimaryFiles = source.files \cap PrimaryFiles

\* C33 as stated: for every catalog nickname X the device has, a run with
\* "require partition-exists=X" and without X's image never gets to run its
\* tasks; and a run that collected its tasks flashes the images it has.
C33_RequiredImageTerminates ==
    Collected =>
        /\ \A X \in RequiredNicknames : ~RequiredAndMissing(X)
        /\ PresentFlashed

\* C33 for the runs that take their tasks from the image catalog and the
\* partitions the catalog lists as boot or OS images: with "require
\* partition-exists=X" and X's image missing the run terminates before any
\* task is collected; without, the missing optional images are skipped and
\* every image that is there gets its Flash task.
C33_RequiredImageTerminatesFromCatalog ==
    (Collected /\ FromImageList) =>
        /\ \A X \in RequiredNicknames :
              TypeOf(X) \in {"BootCritical", "Normal"} => ~RequiredAndMissing(X)
        /\ PresentFlashed

\* Witness of C33: the run died collecting its tasks, vendor required by
\* android-info.txt and vendor.img missing.
C33_Witness ==
    /\ FromImageList
    /\ RequiredAndMissing("vendor")
    /\ pc = "collect"
    /\ dead
    /\ cmds # <<>>

\* the other half: nothing required, vendor.img missing, the run complete
C33_WitnessSkipped ==
    /\ FromImageList
    /\ ~Required("vendor")
    /\ "vendor.img" \notin source.files
    /\ pc = "done"
    /\ \E k \in 1..Len(tasks_) : tasks_[k].type = "Flash" /\ tasks_[k].fname = "system.img"

-----------------------------------------------------------------------------
(* Fetching a partition: fetch_partition                                   *)

\* uint64_t addition and subtraction, modulo 2^64
WAdd(x, y) ==
    Wide((x.a + y.a + ((x.b + y.b + ((x.c + y.c) \div Limb)) \div Limb)) % 65536,
         (x.b + y.b + ((x.c + y.c) \div Limb)) % Limb,
         (x.c + y.c) % Limb)

WSub(x, y) ==
    Wide((x.a - y.a - (IF x.b - y.b - (IF x.c < y.c THEN 1 ELSE 0) < 0 THEN 1 ELSE 0))
            % 65536,
         (x.b - y.b - (IF x.c < y.c THEN 1 ELSE 0)) % Limb,
         (x.c - y.c) % Limb)

\* A mutant of chunk_size: every chunk is a whole max-fetch-size.
chunk_size_whole(fetch_size, partition_size, offset) == fetch_size

\* uint64_t chunk_size = std::min(fetch_size, partition_size - offset)
chunk_size(fetch_size, partition_size, offset) ==
    WMin(fetch_size, WSub(partition_size, offset))

\* Replies to max-fetch-size.
FetchSizeReplies ==
    {NoReply, Reply(""), Reply("0"), Reply("bogus"), Reply("0x100"), Reply("0x140"),
     Reply("4096"), Reply("9223372036854775808"), Reply("18446744073709551615")}

FetchInit ==
    /\ pc = "fetch"
    /\ tasks_ = <<>>
    /\ tasks = <<>>
    /\ run = NoRun
    /\ cmds = <<>>
    /\ dead = FALSE
    /\ note = {}
    /\ next_active = ""
    /\ target_sparse_limit = WideOf(-1)
    /\ link = NoLink
    /\ fp = DefaultPlan
    /\ source = NoSource
    /\ \E fetch \in FetchSizeReplies, size \in PartitionSizeReplies,
          logical \in {{}, {"boot"}} :
           dev = [DefaultDevice EXCEPT !.max_fetch_size = fetch,
                                       !.partition_size = size,
                                       !.logical = logical]
    /\ probe = [kind |-> "fetch", partition |-> "boot", at |-> "entry",
                fetch_size |-> WideOf(0), partition_size |-> WideOf(0),
                offset |-> WideOf(0), calls |-> <<>>, term |-> "none",
                ret |-> WideOf(0)]

InFetch == pc = "fetch" /\ ~dead /\ probe.kind = "fetch"

\* fetch_partition up to its loop: both sizes are read and checked.
FetchSizes ==
    /\ InFetch
    /\ probe.at = "entry"
    /\ LET fetch_size == get_uint_var(dev.max_fetch_size)
           size == get_partition_size(probe.partition)
       IN  IF fetch_size = WideOf(0) \/ size.term # "return"
           THEN /\ probe' = [probe EXCEPT !.at = "ended", !.term = "die",
                                          !.fetch_size = fetch_size]
                /\ dead' = TRUE
           ELSE IF WLeq(size.ret, WideOf(0))
           THEN /\ probe' = [probe EXCEPT !.at = "ended", !.term = "die",
                                          !.fetch_size = fetch_size,
                                          !.partition_size = size.ret]
                /\ dead' = TRUE
           ELSE /\ probe' = [probe EXCEPT !.at = "loop",
                                          !.fetch_size = fetch_size,
                                          !.partition_size = size.ret]
                /\ dead' = FALSE
    /\ UNCHANGED <<fp, source, dev, pc, tasks_, tasks, run, cmds, note,
                   next_active, target_sparse_limit, link>>

\* One turn of the loop: FetchToFd of the next chunk, which the device
\* serves or fails.
FetchToFd ==
    /\ InFetch
    /\ probe.at = "loop"
    /\ WLess(probe.offset, probe.partition_size)
    /\ \E served \in IF Len(probe.calls) < MaxFetches THEN BOOLEAN ELSE {FALSE} :
          /\ probe' = [probe EXCEPT
                          !.calls = Append(@, [offset |-> probe.offset,
                                               size |-> chunk_size(probe.fetch_size,
                                                                   probe.partition_size,
                                                                   probe.offset),
                                               served |-> served]),
                          !.offset = IF served
                                     THEN WAdd(@, chunk_size(probe.fetch_size,
                                                             probe.partition_size,
                                                             probe.offset))
                                     ELSE @,
                          !.at = IF served THEN "loop" ELSE "ended",
                          !.term = IF served THEN "none" ELSE "die"]
          /\ dead' = ~served
    /\ UNCHANGED <<fp, source, dev, pc, tasks_, tasks, run, cmds, note,
                   next_active, target_sparse_limit, link>>

\* The loop is left: return partition_size.
FetchReturn ==
    /\ InFetch
    /\ probe.at = "loop"
    /\ ~WLess(probe.offset, probe.partition_size)
    /\ probe' = [probe EXCEPT !.at = "ended", !.term = "return",
                              !.ret = probe.partition_size]
    /\ UNCHANGED <<fp, source, dev, pc, tasks_, tasks, run, cmds, dead, note,
                   next_active, target_sparse_limit, link>>

FetchNext == FetchSizes \/ FetchToFd \/ FetchReturn

FetchSpec == FetchInit /\ [][FetchNext]_vars

\* fetch_partition is straight-line code around its loop: it keeps running.
FetchFair == FetchSpec /\ WF_vars(FetchNext)

\* the end of the k-th fetched range
FetchEnd(k) == WAdd(probe.calls[k].offset, probe.calls[k].size)

\* the ranges asked for so far: non-empty, at most max-fetch-size, the
\* first at 0, each at the end of the one before, none beyond the partition
FetchRanges ==
    \A k \in 1..Len(probe.calls) :
        /\ WLess(WideOf(0), probe.calls[k].size)
        /\ WLeq(probe.calls[k].size, probe.fetch_size)
        /\ probe.calls[k].offset = IF k = 1 THEN WideOf(0) ELSE FetchEnd(k - 1)
        /\ WLess(probe.calls[k].offset, FetchEnd(k))
        /\ WLeq(FetchEnd(k), probe.partition_size)
        /\ k < Len(probe.calls) => probe.calls[k].served

\* what fetch_partition returns, and after which fetches
FetchReturned ==
    probe.term = "return" =>
        /\ probe.ret = probe.partition_size
        /\ probe.calls # <<>>
        /\ FetchEnd(Len(probe.calls)) = probe.partition_size
        /\ probe.calls[Len(probe.calls)].served

\* max-fetch-size 0 or unreported, or a partition of size 0: the process is
\* ended and nothing was fetched
FetchRefused ==
    (/\ probe.at # "entry"
     /\ \/ get_uint_var(dev.max_fetch_size) = WideOf(0)
        \/ get_partition_size(probe.partition).term # "return"
        \/ get_partition_size(probe.partition).ret = WideOf(0))
        => /\ probe.term = "die"
           /\ dead
           /\ probe.calls = <<>>

\* C34: the FetchToFd calls of fetch_partition ask for non-empty ranges that
\* start at 0, follow one another without gap or overlap, are each at most
\* max-fetch-size and together cover [0, partition size) when the function
\* returns, which it does with the partition size; with max-fetch-size 0 or
\* unreported or a partition of size 0 the process ends with nothing
\* fetched; and every call of fetch_partition comes to its end.
C34_FetchCovers ==
    /\ [](FetchRanges /\ FetchReturned /\ FetchRefused)
    /\ <>(probe.at = "ended")

\* Witness of C34: a partition of 0x140 bytes fetched in chunks of 0x100 and
\* 0x40 bytes.
C34_Witness ==
    /\ probe.kind = "fetch"
    /\ probe.term = "return"
    /\ probe.ret = UintText["0x140"]
    /\ probe.calls = <<[offset |-> WideOf(0), size |-> UintText["0x100"], served |-> TRUE],
                       [offset |-> UintText["0x100"], size |-> WideOf(64), served |-> TRUE]>>

-----------------------------------------------------------------------------
(* The bytes flash_buf writes                                              *)

\* flash_buf has come to its writes
Writing ==
    /\ pc = "flash"
    /\ probe.kind = "flash"
    /\ probe.step \in {"sending", "done"}
    /\ probe.term = "return"

\* copy_avb_footer or rewrite_vbmeta_buffer put a new file into the buffer
Modified == probe.buf.fd.id # probe.image.fd.id

\* what the FlashPartition commands of flash_buf transmit: the chunks of
\* buf->files, or buf->sz bytes of buf->fd
FlashedBytes ==
    IF probe.buf.type = "FB_BUFFER_SPARSE"
    THEN DecodedAll(probe.buf.files)
    ELSE SubSeq(probe.buf.fd.data, probe.buf.fd.pos + 1,
                probe.buf.fd.pos + probe.buf.sz)

\* C35: when flash_buf has modified the image, by relocating the footer or
\* by rewriting the flags, the bytes its FlashPartition commands send are
\* the modified bytes, for a buffer sent as one file and for one split into
\* sparse chunks alike.
C35_ModifiedBytesSent ==
    (Writing /\ Modified) => FlashedBytes = probe.buf.fd.data

\* C35 for the buffers sent as one file.
C35_ModifiedBytesSentAsFile ==
    (Writing /\ Modified /\ probe.buf.type = "FB_BUFFER_FD")
        => FlashedBytes = probe.buf.fd.data

-----------------------------------------------------------------------------
(* The bytes rewrite_vbmeta_buffer reads and writes                         *)

\* rewrite_vbmeta_buffer has been applied once to probe.first
RewrittenOnce ==
    /\ pc = "buffer"
    /\ probe.kind = "vbmeta"
    /\ probe.applied = 1

\* the string rewrite_vbmeta_buffer read from the buffer it was given
GivenData == ReadFdToString(probe.first.fd)

\* where it looks for the VBMeta struct: at 0, or where the footer says
GivenVbmetaOffset ==
    IF probe.vbmeta_in_boot
    THEN be64toh(SubSeq(GivenData, probe.first.sz - AVB_FOOTER_SIZE + 21,
                        probe.first.sz - AVB_FOOTER_SIZE + 28))
    ELSE 0

\* it got as far as data[flags_offset]: a flag is to be set, the buffer has
\* 256 bytes or more and both magics were found
ReachedFlags ==
    /\ probe.verity \/ probe.verification
    /\ probe.first.sz >= 256
    /\ probe.vbmeta_in_boot =>
           Compare(GivenData, probe.first.sz - AVB_FOOTER_SIZE, AVB_FOOTER_MAGIC)
               = "equal"
    /\ Compare(GivenData, GivenVbmetaOffset, AVB_MAGIC) = "equal"

\* C36: rewrite_vbmeta_buffer reads and writes inside the image only: for an
\* image of 256 bytes or more, whatever offset the footer names, the bytes
\* compared with the magic and the flag byte at offset + 123 lie within the
\* image when they are accessed, an offset outside being rejected before
\* anything is written.
C36_AccessInsideImage ==
    (RewrittenOnce /\ ReachedFlags) =>
        /\ GivenVbmetaOffset + Len(AVB_MAGIC) <= Len(GivenData)
        /\ GivenVbmetaOffset + 123 < Len(GivenData)

\* C36 for the magic alone: the write is reached only with the four bytes
\* of the magic inside the image.
C36_MagicInsideImage ==
    (RewrittenOnce /\ ReachedFlags) =>
        GivenVbmetaOffset + Len(AVB_MAGIC) <= Len(GivenData)

-----------------------------------------------------------------------------
(* Dynamic-partition deferral: should_flash_in_userspace(source, name)      *)

\* The ways a call can end: a result, or the process brought down.
Aborts == [term |-> "abort", ret |-> FALSE]

\* should_flash_in_userspace(source, partition_name) for a source that is
\* bound or null; super_empty.img is absent, unreadable, unparsable or valid.
\* With a source bound the metadata pointer is dereferenced unchecked: for a
\* file that does not parse it is null, and anything may follow.
ShouldFlashInUserspace(bound, env, partition_name) ==
    IF ~bound
    THEN IF ~get_android_product_out(env).set THEN {Returns(FALSE)}
         ELSE IF source.super_empty \in {"absent", "unreadable"}
              THEN {Returns(FALSE)}
         ELSE IF source.super_empty = "unparsable" THEN {Returns(FALSE)}
         ELSE {Returns(InMetadata(partition_name))}
    ELSE IF source.super_empty \in {"absent", "unreadable"} THEN {Returns(FALSE)}
    ELSE IF source.super_empty = "unparsable"
         THEN {Aborts, Returns(FALSE), Returns(TRUE)}
    ELSE {Returns(InMetadata(partition_name))}

UserspaceInit ==
    /\ pc = "userspace"
    /\ tasks_ = <<>>
    /\ tasks = <<>>
    /\ run = NoRun
    /\ cmds = <<>>
    /\ dead = FALSE
    /\ note = {}
    /\ next_active = ""
    /\ target_sparse_limit = WideOf(-1)
    /\ link = NoLink
    /\ fp = DefaultPlan
    /\ dev = DefaultDevice
    /\ \E meta \in {Metadata("absent", {}, FALSE), Metadata("unreadable", {}, FALSE),
                    Metadata("unparsable", {}, FALSE), Metadata("valid", {}, FALSE),
                    Metadata("valid", {"system_a"}, FALSE)} :
           source = [NoSource EXCEPT !.super_empty = meta.super,
                                     !.dynamic = meta.dyn]
    /\ \E bound \in BOOLEAN, env \in Environments,
          partition \in {"system_a", "boot_a", "system"} :
           probe = [kind |-> "userspace", bound |-> bound, env |-> env,
                    partition |-> partition, applied |-> 0, term |-> "none",
                    ret |-> FALSE]

ApplyShouldFlashInUserspace ==
    /\ pc = "userspace"
    /\ ~dead
    /\ probe.kind = "userspace"
    /\ probe.applied = 0
    /\ \E out \in ShouldFlashInUserspace(probe.bound, probe.env, probe.partition) :
          /\ probe' = [probe EXCEPT !.applied = 1, !.term = out.term,
                                    !.ret = out.ret]
          /\ dead' = (out.term # "return")
    /\ UNCHANGED <<fp, source, dev, pc, tasks_, tasks, run, cmds, note,
                   next_active, target_sparse_limit, link>>

UserspaceNext == ApplyShouldFlashInUserspace

UserspaceSpec == UserspaceInit /\ [][UserspaceNext]_vars

\* the call was made with no usable super_empty.img
NoMetadata ==
    /\ pc = "userspace"
    /\ probe.kind = "userspace"
    /\ probe.applied = 1
    /\ source.super_empty \in {"absent", "unreadable", "unparsable"}

\* C37: with super_empty.img absent, unreadable or not parsable as
\* partition metadata should_flash_in_userspace returns false and the
\* process goes on, with an image source bound and with none.
C37_FalseWithoutMetadata ==
    NoMetadata => (probe.term = "return" /\ probe.ret = FALSE /\ ~dead)

\* C37 without the one case of a source bound to a file that does not parse.
C37_FalseWithoutMetadataChecked ==
    (NoMetadata /\ ~(probe.bound /\ source.super_empty = "unparsable"))
        => (probe.term = "return" /\ probe.ret = FALSE /\ ~dead)

-----------------------------------------------------------------------------
(* The filter of CollectTasks applied to collected lists                   *)

\* Tasks of every type, Flash tasks of static and of dynamic partitions.
CollectedPool ==
    {FlashTask("", "boot", "boot.img", FALSE),
     FlashTask("", "system", "system.img", FALSE),
     FlashTask("", "vendor", "vendor.img", FALSE),
     RebootTask("fastboot"), UpdateSuperTask, WipeTask("userdata"),
     ResizeTask("system", "0", ""), OptimizedFlashSuperTask}

CollectedLists == UNION {[1..n -> CollectedPool] : n \in 0..MaxCollected}

\* what the collection of CollectTasks hands to its filter
CollectedList(list) == Built([term |-> "return", tasks |-> list, note |-> {}])

FilterInit ==
    /\ pc = "filter"
    /\ tasks_ = <<>>
    /\ tasks = <<>>
    /\ run = NoRun
    /\ cmds = <<>>
    /\ dead = FALSE
    /\ note = {}
    /\ next_active = ""
    /\ target_sparse_limit = WideOf(-1)
    /\ link = NoLink
    /\ dev \in {PlainDevice, ABDevice, [ABDevice EXCEPT !.current_slot = NoReply]}
    /\ \E exclude \in BOOLEAN :
           fp = [DefaultPlan EXCEPT !.exclude_dynamic_partitions = exclude]
    /\ \E meta \in {Metadata("absent", {}, FALSE),
                    Metadata("valid", {"system", "system_a"}, FALSE),
                    Metadata("valid", {"system", "vendor", "vendor_a"}, FALSE)} :
           source = [NoSource EXCEPT !.super_empty = meta.super,
                                     !.dynamic = meta.dyn]
    /\ \E list \in CollectedLists :
           probe = [kind |-> "filter", list |-> list, applied |-> 0,
                    term |-> "none", result |-> <<>>]

\* FlashAllTool::CollectTasks from the collected list on
ApplyFilter ==
    /\ pc = "filter"
    /\ ~dead
    /\ probe.kind = "filter"
    /\ probe.applied = 0
    /\ probe' = [probe EXCEPT
                    !.applied = 1,
                    !.term = WithoutDynamicPartitions(fp, CollectedList(probe.list)).term,
                    !.result = WithoutDynamicPartitions(fp, CollectedList(probe.list)).tasks]
    /\ dead' = (WithoutDynamicPartitions(fp, CollectedList(probe.list)).term # "return")
    /\ UNCHANGED <<fp, source, dev, pc, tasks_, tasks, run, cmds, note,
                   next_active, target_sparse_limit, link>>

FilterNext == ApplyFilter

FilterSpec == FilterInit /\ [][FilterNext]_vars

Filtered ==
    /\ pc = "filter"
    /\ probe.kind = "filter"
    /\ probe.applied = 1
    /\ probe.term = "return"

\* the name should_flash_in_userspace is asked about for a Flash task
FlashedPartition(t) == GetPartitionName(t.pname, t.slot, get_current_slot).ret

\* a Flash task of a partition that is not flashed in userspace: there is no
\* metadata, or the partition is not in it
StaticFlash(t) ==
    /\ t.type = "Flash"
    /\ ~(source.super_empty = "valid" /\ FlashedPartition(t) \in source.dynamic)

\* the places of the tasks of the list that satisfy StaticFlash
StaticPlaces(list) == {i \in 1..Len(list) : StaticFlash(list[i])}

\* C38: with exclude_dynamic_partitions the list CollectTasks returns holds
\* the Flash tasks of the partitions not flashed in userspace and nothing
\* else, in the order they were collected in: the Flash tasks of dynamic
\* partitions and every task of another type are gone; without the flag
\* the collected list is returned as it is.
C38_OnlyStaticFlashTasks ==
    Filtered =>
        IF fp.exclude_dynamic_partitions
        THEN /\ \A k \in 1..Len(probe.result) : StaticFlash(probe.result[k])
             /\ Len(probe.result) = Cardinality(StaticPlaces(probe.list))
             /\ \A k \in 1..Len(probe.result) :
                    probe.result[k] = probe.list[Nth(StaticPlaces(probe.list), k)]
        ELSE probe.result = probe.list

\* Witness of C38: of boot, UpdateSuper and the dynamic system only the
\* Flash task of boot is left.
C38_Witness ==
    /\ Filtered
    /\ fp.exclude_dynamic_partitions
    /\ probe.list = <<FlashTask("", "boot", "boot.img", FALSE), UpdateSuperTask,
                      FlashTask("", "system", "system.img", FALSE)>>
    /\ probe.result = <<FlashTask("", "boot", "boot.img", FALSE)>>

-----------------------------------------------------------------------------
(* verify_slot("other")                                                    *)

\* verify_slot("other", ...) was applied on a device with one slot or more
OtherVerified ==
    /\ pc = "probe"
    /\ probe.kind = "verify"
    /\ probe.name = "other"
    /\ probe.out # NotCalled
    /\ DeviceHasSlots

\* C39: on a device with one slot or more verify_slot("other") returns one
\* letter, among the first slot-count letters and different from the
\* device's current slot, whatever the slot count and whatever the device
\* answers to current-slot, an unreadable or empty answer included.
C39_OtherSlotDiffers ==
    OtherVerified =>
        /\ probe.out.term = "return"
        /\ IsSlotLetter(probe.out.ret)
        /\ probe.out.ret # get_current_slot

\* C39 on the devices with two slots or more whose current slot is one of
\* their slots.
C39_OtherSlotDiffersAB ==
    (OtherVerified /\ ReportedSlots >= 2 /\ IsSlotLetter(get_current_slot)) =>
        /\ probe.out.term = "return"
        /\ IsSlotLetter(probe.out.ret)
        /\ probe.out.ret # get_current_slot

-----------------------------------------------------------------------------
(* FastBootTool::Main: the command loop and the tasks it queues            *)

\* Words of the command lines: commands that queue a task, a command that
\* is carried out at once, and a word that is no command.
ArgPool ==
    {"reboot", "bootloader", "reboot-recovery", "delete-logical-partition",
     "flashall", "continue"}
CommandLines == UNION {[1..n -> ArgPool] : n \in 0..MaxArgs}

\* Main with a command line: args holds the words not read yet, from the
\* place in the line of the command that queued each task of tasks.
CommandInit ==
    /\ pc = "main"
    /\ tasks_ = <<>>
    /\ tasks = <<>>
    /\ run = NoRun
    /\ cmds = <<>>
    /\ dead = FALSE
    /\ note = {}
    /\ target_sparse_limit = WideOf(-1)
    /\ link = NoLink
    /\ \E line \in CommandLines, wipe \in BOOLEAN, set \in BOOLEAN, skip \in BOOLEAN :
          /\ probe = [kind |-> "args", line |-> line, args |-> line, from |-> <<>>]
          /\ fp = [DefaultPlan EXCEPT !.wants_wipe = wipe,
                                      !.wants_set_active = set,
                                      !.skip_reboot = skip,
                                      !.should_use_fastboot_info = TRUE]
          /\ next_active = IF set THEN "b" ELSE ""
    /\ source = [NoSource EXCEPT
                    !.kind = "local",
                    !.files = RequiredFiles \cup {"fastboot-info.txt"},
                    !.script = <<<<"version", "1">>, <<"flash", "boot">>,
                                 <<"reboot", "fastboot">>>>]
    /\ dev = ABDevice

\* next_arg n times; queued tells whether the command queued a task.
Consumed(n, queued) ==
    [probe EXCEPT !.args = SubSeq(@, n + 1, Len(@)),
                  !.from = IF queued
                           THEN Append(@, Len(probe.line) - Len(probe.args) + 1)
                           ELSE @]

\* The loop reads command `command`.
AtCommand(command) ==
    /\ pc = "command" /\ ~dead
    /\ probe.args # <<>>
    /\ Head(probe.args) = command

\* Main, command "reboot": the one word left is the target; junk after the
\* command is a syntax error.
CommandReboot ==
    /\ AtCommand("reboot")
    /\ IF Len(probe.args) = 2
       THEN /\ tasks' = Append(tasks, RebootTask(probe.args[2]))
            /\ probe' = Consumed(2, TRUE)
            /\ dead' = FALSE
       ELSE /\ tasks' = IF fp.skip_reboot THEN tasks
                        ELSE Append(tasks, RebootTask(""))
            /\ probe' = Consumed(1, ~fp.skip_reboot)
            /\ dead' = (Len(probe.args) > 1)
    /\ UNCHANGED <<fp, source, dev, pc, tasks_, run, cmds, note, next_active,
                   target_sparse_limit, link>>

\* Main, commands "reboot-bootloader", "reboot-recovery", "reboot-fastboot".
CommandRebootTo ==
    /\ \E target \in {"bootloader", "recovery", "fastboot"} :
          /\ AtCommand("reboot-" \o target)
          /\ tasks' = Append(tasks, RebootTask(target))
    /\ probe' = Consumed(1, TRUE)
    /\ UNCHANGED <<fp, source, dev, pc, tasks_, run, cmds, dead, note, next_active,
                   target_sparse_limit, link>>

\* Main, command "delete-logical-partition".
CommandDelete ==
    /\ AtCommand("delete-logical-partition")
    /\ IF Len(probe.args) = 1
       THEN /\ dead' = TRUE
            /\ probe' = Consumed(1, FALSE)
            /\ tasks' = tasks
       ELSE /\ dead' = FALSE
            /\ probe' = Consumed(2, TRUE)
            /\ tasks' = Append(tasks, DeleteTask(probe.args[2]))
    /\ UNCHANGED <<fp, source, dev, pc, tasks_, run, cmds, note, next_active,
                   target_sparse_limit, link>>

\* Main, command "continue": carried out at once.
CommandContinue ==
    /\ AtCommand("continue")
    /\ Issue(<<Cmd("Continue", "")>>)
    /\ probe' = Consumed(1, FALSE)
    /\ UNCHANGED <<fp, source, dev, pc, tasks_, tasks, run, note, next_active,
                   target_sparse_limit, link>>

\* Main, command "flashall": do_flashall runs FlashAllTool::Flash now.
CommandFlashall ==
    /\ AtCommand("flashall")
    /\ fp' = IF fp.slot_override = "all"
             THEN [fp EXCEPT !.skip_secondary = TRUE] ELSE fp
    /\ probe' = Consumed(1, FALSE)
    /\ pc' = "Flash"
    /\ UNCHANGED <<source, dev, tasks_, tasks, run, cmds, dead, note, next_active,
                   target_sparse_limit, link>>

\* do_flashall returns to the loop, which queues the final reboot.
CommandFlashed ==
    /\ pc = "run_flash" /\ ~dead
    /\ run.task > Len(tasks_)
    /\ tasks' = IF fp.skip_reboot THEN tasks ELSE Append(tasks, RebootTask(""))
    /\ probe' = [probe EXCEPT !.from = IF fp.skip_reboot THEN @
                                       ELSE Append(@, Len(probe.line) - Len(probe.args))]
    /\ run' = [run EXCEPT !.list = "none", !.task = 0]
    /\ pc' = "command"
    /\ UNCHANGED <<fp, source, dev, tasks_, cmds, dead, note, next_active,
                   target_sparse_limit, link>>

\* Main, any other word: syntax_error("unknown command ...").
CommandUnknown ==
    /\ pc = "command" /\ ~dead
    /\ probe.args # <<>>
    /\ Head(probe.args) \notin {"reboot", "reboot-bootloader", "reboot-recovery",
                                "reboot-fastboot", "delete-logical-partition",
                                "continue", "flashall"}
    /\ dead' = TRUE
    /\ probe' = Consumed(1, FALSE)
    /\ UNCHANGED <<fp, source, dev, pc, tasks_, tasks, run, cmds, note, next_active,
                   target_sparse_limit, link>>

\* while (!args.empty()) ends.
CommandEnd ==
    /\ pc = "command" /\ ~dead
    /\ probe.args = <<>>
    /\ pc' = "main_end"
    /\ UNCHANGED <<fp, source, dev, tasks_, tasks, run, cmds, dead, note, probe,
                   next_active, target_sparse_limit, link>>

CommandNext ==
    \/ MainVerifySlots
    \/ CommandReboot
    \/ CommandRebootTo
    \/ CommandDelete
    \/ CommandContinue
    \/ CommandFlashall
    \/ FlashCheckRequirements
    \/ FlashSetActive
    \/ FlashDetermineSlot
    \/ FlashCancelSnapshot
    \/ FlashCollectTasks
    \/ TaskBegin
    \/ TaskCommand
    \/ TaskEnd
    \/ CommandFlashed
    \/ CommandUnknown
    \/ CommandEnd
    \/ MainWipe
    \/ MainSetActive
    \/ MainReturn

CommandSpec == CommandInit /\ [][CommandNext]_vars


\* The tasks of Main's list whose Run() was entered, in the order of entry.
IsMainRun(r) == r.list = "main"
MainRan == SelectSeq(run.ran, IsMainRun)

\* The wipe tasks of -w.
WipeTasks ==
    IF fp.wants_wipe
    THEN <<WipeTask("userdata"), WipeTask("cache"), WipeTask("metadata")>>
    ELSE <<>>

\* The task the command at place i of the line queues.
QueuedBy(i) ==
    CASE probe.line[i] = "reboot" ->
            RebootTask(IF i + 1 = Len(probe.line) THEN probe.line[i + 1] ELSE "")
      [] probe.line[i] = "reboot-recovery" -> RebootTask("recovery")
      [] probe.line[i] = "delete-logical-partition" -> DeleteTask(probe.line[i + 1])
      [] probe.line[i] = "flashall" -> RebootTask("")
      [] OTHER -> WipeTask("")

\* No queued task runs before every argument is processed.
RunAfterArguments ==
    MainRan # <<>> => (probe.args = <<>> /\ pc \in {"run_main", "done"})

\* The queued tasks are in command-line order, behind the wipe tasks once
\* these are inserted, and they run in the order of the list.
InCommandLineOrder ==
    /\ \A i \in 1..Len(probe.from) :
          /\ probe.from[i] \in 1..Len(probe.line)
          /\ i > 1 => probe.from[i - 1] < probe.from[i]
    /\ tasks = (IF pc \in {"main_set_active", "run_main", "done"}
                THEN WipeTasks ELSE <<>>)
               \o [i \in 1..Len(probe.from) |-> QueuedBy(probe.from[i])]
    /\ \A i \in 1..Len(MainRan) : MainRan[i].index = i

\* SetActive(next_active) is the last command before the first queued task.
SetActiveFirst ==
    (fp.wants_set_active /\ pc \in {"run_main", "done"}) =>
        LET at == IF MainRan = <<>> THEN Len(cmds) ELSE MainRan[1].at
        IN  /\ at >= 1
            /\ cmds[at] = [cmd |-> "SetActive", arg |-> next_active, status |-> 0]

\* The device commands before command i of the session include the wipes
\* and the set-active that were asked for.
AfterWipesAndSetActive(i) ==
    /\ fp.wants_wipe =>
          \A p \in {"userdata", "cache", "metadata"} :
             \E j \in 1..(i - 1) :
                cmds[j] = [cmd |-> "Erase", arg |-> p, status |-> 0]
    /\ fp.wants_set_active =>
          \E j \in 1..(i - 1) :
             cmds[j] = [cmd |-> "SetActive", arg |-> next_active, status |-> 0]

\* The device commands of the queued Reboot tasks.
QueuedReboots ==
    {i \in 1..Len(cmds) :
        /\ cmds[i].cmd = "Reboot"
        /\ MainRan # <<>>
        /\ i > MainRan[1].at}

\* C40: the tasks queued by the command line run only after all arguments
\* are processed: with -w the three wipe tasks first, then the queued
\* reboot and delete tasks in command-line order; with --set-active
\* SetActive(next_active) is issued before any queued task runs; hence no
\* reboot is issued before the requested wipes and the requested set-active.
C40_QueuedTasksLast ==
    /\ RunAfterArguments
    /\ InCommandLineOrder
    /\ SetActiveFirst
    /\ \A i \in 1..Len(cmds) : cmds[i].cmd = "Reboot" => AfterWipesAndSetActive(i)

\* C40 with its last part said of the reboots Main queued: none of them is
\* issued before the requested wipes and the requested set-active.
C40_QueuedRebootsLast ==
    /\ RunAfterArguments
    /\ InCommandLineOrder
    /\ SetActiveFirst
    /\ \A i \in QueuedReboots : AfterWipesAndSetActive(i)

\* A wipe and a set-active were asked for, a delete and a reboot were queued
\* in this order, and all of them were carried out.
C40_Witness ==
    /\ pc = "done"
    /\ fp.wants_wipe /\ fp.wants_set_active
    /\ Len(tasks) = 5
    /\ tasks[4].type = "Delete" /\ tasks[5].type = "Reboot"
    /\ Len(MainRan) = 5
    /\ QueuedReboots # {}

\* The same with a flashall whose script reboots the device.
C40_WitnessFlashall ==
    /\ pc = "done"
    /\ fp.wants_wipe
    /\ \E r \in 1..Len(run.ran) : run.ran[r].list = "flash"
    /\ QueuedReboots # {}
    /\ \E i \in 1..Len(cmds) : cmds[i].cmd = "Reboot" /\ i \notin QueuedReboots

-----------------------------------------------------------------------------
(* The fastboot-info interpreter applied to scripts                        *)

LinePool ==
    { <<"version", "1">>,
      <<"version", "0">>,
      <<"version", "2">>,
      <<"version", "bogus">>,
      <<"version", "4294967296">>,
      <<"version", "1", "1">>,
      <<"version">>,
      <<"flash", "boot">>,
      <<"flash", "system">>,
      <<"erase", "userdata">>,
      <<"erase">>,
      <<"", "reboot", "", "fastboot">>,
      <<"if-wipe", "erase", "userdata">>,
      <<"if-wipe", "bogus">>,
      <<"if-wipe", "version", "2">>,
      <<"bogus">>,
      <<"#c", "flash">>,
      <<"">> }

Scripts(n) == UNION {[1..k -> LinePool] : k \in 0..n}

ScriptFiles == {"fastboot-info.txt", "android-info.txt", "boot.img", "system.img"}

ScriptInit ==
    /\ dev = DefaultDevice
    /\ pc = "script"
    /\ tasks_ = <<>>
    /\ tasks = <<>>
    /\ run = NoRun
    /\ cmds = <<>>
    /\ dead = FALSE
    /\ note = {}
    /\ target_sparse_limit = WideOf(-1)
    /\ link = NoLink
    /\ probe = NoProbe
    /\ next_active = ""
    /\ \E ww \in BOOLEAN :
          \/ /\ fp = [DefaultPlan EXCEPT !.wants_wipe = ww,
                                         !.should_use_fastboot_info = TRUE]
             /\ \E sc \in Scripts(MaxLines) :
                   source = [NoSource EXCEPT !.files = ScriptFiles, !.script = sc]
          \/ /\ fp = [DefaultPlan EXCEPT !.wants_wipe = ww,
                                         !.should_use_fastboot_info = TRUE,
                                         !.should_optimize_flash_super = TRUE]
             /\ \E sc \in Scripts(MaxLines - 1), opt \in BOOLEAN,
                   se \in {"valid", "unparsable"} :
                   source = [NoSource EXCEPT
                                !.files = ScriptFiles,
                                !.script = sc,
                                !.super_empty = se,
                                !.dynamic = IF se = "valid" THEN {"system"} ELSE {},
                                !.can_optimize = opt]

\* ParseFastbootInfo(fp, Split(contents, "\n")).
ScriptParse ==
    /\ pc = "script"
    /\ LET r == ParseFastbootInfo(fp, source.script)
       IN  /\ tasks_' = r.tasks
           /\ note' = r.note
           /\ dead' = (r.term # "return")
    /\ pc' = "parsed"
    /\ UNCHANGED <<fp, source, dev, tasks, run, cmds, probe, next_active,
                   target_sparse_limit, link>>

ScriptNext == ScriptParse

ScriptSpec == ScriptInit /\ [][ScriptNext]_vars

\* The lines of the pool as the script format reads them.
VersionOk == { <<"version", "0">>, <<"version", "1">> }
Comments == { <<"#c", "flash">>, <<"">> }
Malformed == { <<"bogus">>, <<"erase">>, <<"version">>, <<"version", "1", "1">>,
               <<"if-wipe", "bogus">>, <<"if-wipe", "version", "2">> }
IfWipeLines == { <<"if-wipe", "erase", "userdata">>, <<"if-wipe", "bogus">>,
                 <<"if-wipe", "version", "2">> }

\* The task a directive of the pool stands for.
TaskOfLine(line) ==
    CASE line = <<"flash", "boot">>   -> FlashTask("", "boot", "boot.img", FALSE)
      [] line = <<"flash", "system">> -> FlashTask("", "system", "system.img", FALSE)
      [] line = <<"erase", "userdata">> -> WipeTask("userdata")
      [] line = <<"if-wipe", "erase", "userdata">> -> WipeTask("userdata")
      [] line = <<"", "reboot", "", "fastboot">> -> RebootTask("fastboot")

\* The tasks lines i.. of a script stand for.
RECURSIVE ExpectedTasks(_, _, _)
ExpectedTasks(file, i, wipe) ==
    IF i > Len(file) THEN <<>>
    ELSE IF file[i] \in Comments \/ file[i] \in VersionOk
         THEN ExpectedTasks(file, i + 1, wipe)
    ELSE IF file[i] \in IfWipeLines /\ ~wipe
         THEN ExpectedTasks(file, i + 1, wipe)
    ELSE <<TaskOfLine(file[i])>> \o ExpectedTasks(file, i + 1, wipe)

IsInjected(t) == t.type \in {"Resize", "OptimizedFlashSuper"}
NotInjected(t) == ~IsInjected(t)

Parsed == pc = "parsed" /\ ~dead
Rejected == "parse error" \in note

\* C3 (as claimed): a script with an unknown or malformed directive line at
\* any position, under either value of wants_wipe, yields no tasks.
C3_MalformedScriptYieldsNoTasks ==
    (pc = "parsed"
       /\ \E i \in 1..Len(source.script) : source.script[i] \in Malformed)
        => tasks_ = <<>>

IsEffective(line) == line \notin Comments
EffectiveLines(file) == SelectSeq(file, IsEffective)
IsVersionLine(line) == Tokenize(line) # <<>> /\ Tokenize(line)[1] = "version"

\* C4 (as claimed): a script yields tasks only if its first effective line
\* (neither empty nor a comment) is a version line.
C4_FirstEffectiveLineIsVersion ==
    (pc = "parsed" /\ tasks_ # <<>>) =>
        /\ EffectiveLines(source.script) # <<>>
        /\ IsVersionLine(EffectiveLines(source.script)[1])

\* C5: a version line is accepted exactly when it is "version <N>" with N an
\* unsigned 32-bit number not above the supported version 1: a script with
\* any other version line, wherever it stands, is rejected with an empty
\* task list, and a script of accepted version lines alone is not rejected.
C5_VersionLineAcceptance ==
    pc = "parsed" =>
        /\ (\E i \in 1..Len(source.script) :
               IsVersionLine(source.script[i]) /\ source.script[i] \notin VersionOk)
              => (Rejected /\ tasks_ = <<>>)
        /\ (\A i \in 1..Len(source.script) : source.script[i] \in VersionOk)
              => ~Rejected

\* Witness of C5: a version newer than the host's, behind an accepted flash
\* line, has emptied the list.
C5_Witness ==
    /\ pc = "parsed"
    /\ source.script = <<<<"version", "1">>, <<"flash", "boot">>, <<"version", "2">>>>
    /\ Rejected
    /\ tasks_ = <<>>

\* C6: an accepted script gives, in order, the tasks of its directives, an
\* if-wipe line counting only when wants_wipe is set; version 1 / flash boot
\* / if-wipe erase userdata gives [Flash(boot)] without and [Flash(boot),
\* Wipe(userdata)] with wants_wipe.
C6_IfWipeFollowsWantsWipe ==
    (Parsed /\ ~Rejected) =>
        /\ SelectSeq(tasks_, NotInjected)
              = ExpectedTasks(source.script, 1, fp.wants_wipe)
        /\ (/\ source.script = << <<"version", "1">>, <<"flash", "boot">>,
                                  <<"if-wipe", "erase", "userdata">> >>
            /\ source.super_empty = "absent")
              => tasks_ = IF fp.wants_wipe
                          THEN <<FlashTask("", "boot", "boot.img", FALSE),
                                 WipeTask("userdata")>>
                          ELSE <<FlashTask("", "boot", "boot.img", FALSE)>>

\* Witness of C6: the example script under wants_wipe.
C6_Witness ==
    /\ Parsed
    /\ fp.wants_wipe
    /\ source.script = << <<"version", "1">>, <<"flash", "boot">>,
                          <<"if-wipe", "erase", "userdata">> >>
    /\ tasks_ = <<FlashTask("", "boot", "boot.img", FALSE), WipeTask("userdata")>>

=============================================================================
